---- MODULE Spec2Model ----
(***************************************************************************)
(* Customer-support backend: the refund validation pipeline                *)
(* (tools/workflow_tools.py, agents/workflow_agents.py, config.py) and the *)
(* semantic product search (services/rag_search.py).                       *)
(*                                                                         *)
(* Strings the code manipulates (order ids, refund ids) are sequences of   *)
(* one-character strings, so that str.replace is computed, not assumed.    *)
(***************************************************************************)
EXTENDS Integers, Sequences, FiniteSets, TLC

\* ------------------------------------------------------------------------
\* Strings
\* ------------------------------------------------------------------------

ORD_PREFIX == <<"O", "R", "D", "-">>

REF_PREFIX == <<"R", "E", "F", "-">>

\* s[i..] starts with p
StartsWithAt(s, i, p) ==
    /\ i + Len(p) - 1 <= Len(s)
    /\ \A k \in 1..Len(p) : s[i + k - 1] = p[k]

RECURSIVE ReplaceFrom(_, _, _, _)
\* Python str.replace(old, new) from position i: leftmost non-overlapping
\* occurrences of old are replaced, everything else is copied.
ReplaceFrom(s, i, old, new) ==
    IF i > Len(s) THEN <<>>
    ELSE IF StartsWithAt(s, i, old)
         THEN new \o ReplaceFrom(s, i + Len(old), old, new)
         ELSE <<s[i]>> \o ReplaceFrom(s, i + 1, old, new)

StrReplace(s, old, new) == ReplaceFrom(s, 1, old, new)

\* refund_id = f"REF-{order_id.replace('ORD-', '')}"
RefundIdKeepsPrefix(order_id) == REF_PREFIX \o order_id

RefundId_DropsSuffix(order_id) == REF_PREFIX

RefundId(order_id) == REF_PREFIX \o StrReplace(order_id, ORD_PREFIX, <<>>)

\* ------------------------------------------------------------------------
\* Refund pipeline: data
\* ------------------------------------------------------------------------

\* Order ids of the documented format ORD-XXXXX (config.py, seed.py).
OrderIdPool == { ORD_PREFIX \o <<d>> : d \in {"1", "2"} }

\* "" is a missing reason.
Reasons == {"", "broken item", "wrong model"}

EligibilityReasons == {"Within 30-day return window", "Past 30-day return window"}

\* Concurrent conversation turns that may each run the refund workflow.
Runs == {"r1", "r2"}

NoResult == [status |-> "none"]

VARIABLES
    orders,              \* ids of the documents of collection "orders"
    refund_eligibility,  \* collection "refund_eligibility": id -> record
    refunds,             \* collection "refunds": refund id -> record
    pc,                  \* per run: position in the SequentialAgent
    order_id,            \* per run: order id found in the conversation
    reason,              \* per run: refund reason found in the conversation
    order_status,        \* per run: session state, output_key of validator
    eligibility_status,  \* per run: session state, output_key of checker
    escalate,            \* per run: tool_context.actions.escalate
    calls,               \* per run: tools invoked, in order
    result               \* per run: result of the last tool call

refundVars == <<orders, refund_eligibility, refunds, pc, order_id, reason,
                order_status, eligibility_status, escalate, calls, result>>

VARIABLES
    products,            \* collection "products", in stream order
    cosine,              \* product id -> similarity of its embedding to the query's
    query,               \* search(query, ...): the query, a sequence of tokens
    limit,               \* search(..., limit, ...)
    max_price,           \* search(..., max_price): a number or None
    embedding_fails,     \* the embedding provider fails for this query
    search_pc,           \* "ready" before the call, "done" after it
    search_result        \* the list search returned

searchVars == <<products, cosine, query, limit, max_price, embedding_fails,
                search_pc, search_result>>

VARIABLES
    state,               \* tool_context.state: the session's product memory
    rag_path,            \* USE_RAG holds and the RAG search did not raise
    tool_result,         \* the dict search_products returned
    search_hit,          \* history: a search of the session has returned products
    followup             \* the last follow-up tool called and the dict it returned

sessionVars == <<state, rag_path, tool_result, search_hit, followup>>

VARIABLES
    provider_script,     \* outcome of each call of the embedding provider
    attempts,            \* calls of the embedding provider made so far
    delay,               \* nominal delay before the next retry, in seconds
    elapsed,             \* seconds since the first attempt started
    retry_pc,            \* "calling", "sleeping" or "done"
    embedding_outcome    \* what _generate_embedding_with_retry produced

retryVars == <<provider_script, attempts, delay, elapsed, retry_pc,
               embedding_outcome>>

VARIABLES
    invoices,            \* ids of the documents of collection "invoices"
    payments,            \* ids of the documents of collection "payments"
    tool_pc,             \* "ready" before a tool call, "done" after it
    tool_name,           \* the tool that was called
    tool_status          \* the status field of the dict it returned

toolVars == <<invoices, payments, tool_pc, tool_name, tool_status>>

VARIABLES
    chat_pc,             \* position of the /api/chat request
    agent_outcome,       \* how the agent query went
    agent_text,          \* the text parts the agent streamed, concatenated
    http_status,         \* status code of the HTTP response
    response_text        \* ChatResponse.response, or the error detail

chatVars == <<chat_pc, agent_outcome, agent_text, http_status, response_text>>

VARIABLES
    _active_tokens,      \* per server process: token -> its token_data
    utcnow,              \* datetime.utcnow(), in days
    issued_tokens,       \* history: every token generate_token has returned
    revoked_tokens,      \* history: the tokens revoke_token has removed
    expired_tokens,      \* history: the tokens verify_token has found expired
    auth_call            \* the last call of auth.py and what it returned

authVars == <<_active_tokens, utcnow, issued_tokens, revoked_tokens,
              expired_tokens, auth_call>>

VARIABLES
    sessions,            \* collection "sessions": session id -> document
    messages,            \* per session: subcollection "messages", in order
    agent_queries,       \* calls of agent_client.query_agent made so far
    api_response         \* the last HTTP response of the session endpoints

apiVars == <<sessions, messages, agent_queries, api_response>>

VARIABLES
    users,               \* collection "users": user id -> document
    register_pc,         \* per server process: position of its register request
    register_email,      \* per server process: RegisterRequest.email
    register_response    \* per server process: its last register response

userVars == <<users, register_pc, register_email, register_response>>

backendVars == <<authVars, apiVars, userVars>>

\* What the backend's actions leave alone.
exceptBackendVars == <<refundVars, searchVars, sessionVars, retryVars,
                       toolVars, chatVars>>

exceptAuthVars == <<exceptBackendVars, apiVars, userVars>>

exceptApiVars == <<exceptBackendVars, userVars>>

vars == <<refundVars, searchVars, sessionVars, retryVars, toolVars, chatVars,
          backendVars>>

\* What the actions of one part of the program leave alone.
exceptRefundVars == <<searchVars, sessionVars, retryVars, toolVars, chatVars,
                      backendVars>>

exceptSearchVars == <<refundVars, sessionVars, retryVars, toolVars, chatVars,
                      backendVars>>

\* ------------------------------------------------------------------------
\* Refund pipeline: the three tools
\* ------------------------------------------------------------------------

\* validate_order_id: status and whether escalate is set
validate_order_id_AlwaysValid(oid) ==
    [status |-> "valid", escalate |-> FALSE]

validate_order_id(oid) ==
    LET exists == oid \in orders
    IN  [status   |-> IF exists THEN "valid" ELSE "invalid",
         escalate |-> ~exists]

\* check_refund_eligibility: the returned dict and whether escalate is set
check_refund_eligibility_NoStop(oid) ==
    IF oid \in DOMAIN refund_eligibility
    THEN [result   |-> [status   |-> "success",
                        eligible |-> TRUE,
                        reason   |-> refund_eligibility[oid].reason],
          escalate |-> FALSE]
    ELSE [result |-> [status |-> "success", eligible |-> TRUE, reason |-> "Unknown"],
          escalate |-> FALSE]

check_refund_eligibility(oid) ==
    IF oid \in DOMAIN refund_eligibility
    THEN LET doc == refund_eligibility[oid]
         IN  [result   |-> [status   |-> "success",
                            eligible |-> doc.eligible,
                            reason   |-> doc.reason],
              escalate |-> ~doc.eligible]
    ELSE [result |-> [status |-> "not_found"], escalate |-> TRUE]

\* process_refund: the returned dict and the refund store after the call
process_refund_KeepsFirst(oid, rsn) ==
    IF oid \notin orders
    THEN [result |-> [status |-> "error", message |-> "Order not found"],
          refunds |-> refunds]
    ELSE LET refund_id == RefundId(oid)
             doc == [order_id |-> oid, reason |-> rsn, status |-> "pending"]
         IN  [result  |-> [status    |-> "success",
                           refund_id |-> refund_id,
                           message   |-> "Refund submitted"],
              refunds |-> [x \in DOMAIN refunds \cup {refund_id} |->
                              IF x \in DOMAIN refunds THEN refunds[x] ELSE doc]]

process_refund_WritesBeforeCheck(oid, rsn) ==
    LET refund_id == RefundId(oid)
        doc == [order_id |-> oid, reason |-> rsn, status |-> "pending"]
        written == [x \in DOMAIN refunds \cup {refund_id} |->
                       IF x = refund_id THEN doc ELSE refunds[x]]
    IN  IF oid \notin orders
        THEN [result |-> [status |-> "error", message |-> "Order not found"],
              refunds |-> written]
        ELSE [result  |-> [status    |-> "success",
                           refund_id |-> refund_id,
                           message   |-> "Refund submitted"],
              refunds |-> written]

process_refund(oid, rsn) ==
    IF oid \notin orders
    THEN [result |-> [status |-> "error", message |-> "Order not found"],
          refunds |-> refunds]
    ELSE LET refund_id == RefundId(oid)
             doc == [order_id |-> oid, reason |-> rsn, status |-> "pending"]
         IN  [result  |-> [status    |-> "success",
                           refund_id |-> refund_id,
                           message   |-> "Refund submitted"],
              refunds |-> [x \in DOMAIN refunds \cup {refund_id} |->
                              IF x = refund_id THEN doc ELSE refunds[x]]]

\* ------------------------------------------------------------------------
\* Refund pipeline: the SequentialAgent and its three sub-agents
\* ------------------------------------------------------------------------

RefundInit ==
    /\ orders \in SUBSET OrderIdPool
    /\ \E withRecord \in SUBSET OrderIdPool :
          refund_eligibility \in
              [withRecord -> [eligible : BOOLEAN, reason : EligibilityReasons]]
    /\ refunds = <<>>
    /\ pc = [r \in Runs |-> "idle"]
    /\ order_id = [r \in Runs |-> <<>>]
    /\ reason = [r \in Runs |-> ""]
    /\ order_status = [r \in Runs |-> ""]
    /\ eligibility_status = [r \in Runs |-> ""]
    /\ escalate = [r \in Runs |-> FALSE]
    /\ calls = [r \in Runs |-> <<>>]
    /\ result = [r \in Runs |-> NoResult]

\* The root agent calls refund_workflow for a conversation that mentions
\* order id oid and reason rsn ("" when the user gave none).
StartRefundWorkflow(r, oid, rsn) ==
    /\ pc[r] \in {"idle", "done", "awaiting_reason"}
    /\ pc' = [pc EXCEPT ![r] = "order_validator"]
    /\ order_id' = [order_id EXCEPT ![r] = oid]
    /\ reason' = [reason EXCEPT ![r] = rsn]
    /\ order_status' = [order_status EXCEPT ![r] = ""]
    /\ eligibility_status' = [eligibility_status EXCEPT ![r] = ""]
    /\ escalate' = [escalate EXCEPT ![r] = FALSE]
    /\ calls' = [calls EXCEPT ![r] = <<>>]
    /\ result' = [result EXCEPT ![r] = NoResult]
    /\ UNCHANGED <<orders, refund_eligibility, refunds>>
    /\ UNCHANGED exceptRefundVars

\* After a sub-agent whose tool set escalate, the workflow either stops or
\* hands over to the next sub-agent (whose instruction then reads the gate
\* state); both are covered.
AfterStage_Retry(r, escalated, next) ==
    IF escalated THEN pc' = pc
    ELSE pc' = [pc EXCEPT ![r] = next]

AfterStage(r, escalated, next) ==
    IF escalated THEN pc' \in {[pc EXCEPT ![r] = "done"], [pc EXCEPT ![r] = next]}
    ELSE pc' = [pc EXCEPT ![r] = next]

\* Stage 1: order_validator calls validate_order_id once and outputs the
\* status word, saved under output_key "order_status".
OrderValidator(r) ==
    /\ pc[r] = "order_validator"
    /\ LET v == validate_order_id(order_id[r])
       IN  /\ order_status' = [order_status EXCEPT ![r] = v.status]
           /\ escalate' = [escalate EXCEPT ![r] = escalate[r] \/ v.escalate]
           /\ result' = [result EXCEPT ![r] = [status |-> v.status]]
           /\ calls' = [calls EXCEPT ![r] = Append(@, "validate_order_id")]
           /\ AfterStage(r, v.escalate, "eligibility_checker")
    /\ UNCHANGED <<orders, refund_eligibility, refunds, order_id, reason,
                   eligibility_status>>
    /\ UNCHANGED exceptRefundVars

\* The word the eligibility_checker outputs for a tool result.
EligibilityWord_OrderNotFound(res) ==
    IF res.status = "not_found" THEN "order_not_found"
    ELSE IF res.eligible THEN "eligible" ELSE "ineligible"

EligibilityWord(res) ==
    IF res.status = "not_found" THEN "no_eligibility_data"
    ELSE IF res.eligible THEN "eligible" ELSE "ineligible"

\* Stage 2: eligibility_checker.
EligibilityChecker(r) ==
    /\ pc[r] = "eligibility_checker"
    /\ IF order_status[r] = "invalid"
       THEN /\ eligibility_status' = [eligibility_status EXCEPT ![r] = "order_not_found"]
            /\ pc' = [pc EXCEPT ![r] = "refund_processor"]
            /\ UNCHANGED <<escalate, result, calls>>
       ELSE LET c == check_refund_eligibility(order_id[r])
            IN  /\ eligibility_status' =
                      [eligibility_status EXCEPT ![r] = EligibilityWord(c.result)]
                /\ escalate' = [escalate EXCEPT ![r] = escalate[r] \/ c.escalate]
                /\ result' = [result EXCEPT ![r] = c.result]
                /\ calls' = [calls EXCEPT ![r] = Append(@, "check_refund_eligibility")]
                /\ AfterStage(r, c.escalate, "refund_processor")
    /\ UNCHANGED <<orders, refund_eligibility, refunds, order_id, reason,
                   order_status>>
    /\ UNCHANGED exceptRefundVars

\* The gates of the refund_processor instruction.
GatesPassAlways(r) == TRUE

GatesPass(r) ==
    /\ order_status[r] = "valid"
    /\ eligibility_status[r] = "eligible"

\* The conversation holds no refund reason (refund_processor then asks).
ReasonMissingNever(r) == FALSE

ReasonMissing(r) == reason[r] = ""

\* Stage 3: refund_processor.
RefundProcessor(r) ==
    /\ pc[r] = "refund_processor"
    /\ IF ~GatesPass(r)
       THEN /\ pc' = [pc EXCEPT ![r] = "done"]
            /\ UNCHANGED <<refunds, result, calls>>
       ELSE IF ReasonMissing(r)
       THEN /\ pc' = [pc EXCEPT ![r] = "awaiting_reason"]
            /\ UNCHANGED <<refunds, result, calls>>
       ELSE LET p == process_refund(order_id[r], reason[r])
            IN  /\ refunds' = p.refunds
                /\ result' = [result EXCEPT ![r] = p.result]
                /\ calls' = [calls EXCEPT ![r] = Append(@, "process_refund")]
                /\ pc' = [pc EXCEPT ![r] = "done"]
    /\ UNCHANGED <<orders, refund_eligibility, order_id, reason, order_status,
                   eligibility_status, escalate>>
    /\ UNCHANGED exceptRefundVars

\* The user answers the refund_processor's question with a reason.
ProvideReason(r, rsn) ==
    /\ pc[r] = "awaiting_reason"
    /\ rsn # ""
    /\ reason' = [reason EXCEPT ![r] = rsn]
    /\ pc' = [pc EXCEPT ![r] = "refund_processor"]
    /\ UNCHANGED <<orders, refund_eligibility, refunds, order_id, order_status,
                   eligibility_status, escalate, calls, result>>
    /\ UNCHANGED exceptRefundVars

\* ------------------------------------------------------------------------
\* Product search: text
\* ------------------------------------------------------------------------

\* Python None for an absent max_price.
None == 0 - 1

\* str.lower() on the words that occur in queries and product texts.
Lower(w) ==
    CASE w = "Laptops"     -> "laptops"
      [] w = "Laptop"      -> "laptop"
      [] w = "ProBook"     -> "probook"
      [] w = "Gaming"      -> "gaming"
      [] w = "Notebook"    -> "notebook"
      [] w = "Wireless"    -> "wireless"
      [] w = "Mouse"       -> "mouse"
      [] w = "Headphones"  -> "headphones"
      [] w = "Electronics" -> "electronics"
      [] w = "Sleeve"      -> "sleeve"
      [] w = "Under"       -> "under"
      [] OTHER             -> w

\* The category keywords that occur as substrings of a lower-case word.
KeywordsIn(w) ==
    CASE w \in {"laptop", "laptops"} -> {"laptop"}
      [] w = "notebook"              -> {"notebook"}
      [] w = "computer"              -> {"computer"}
      [] w = "mouse"                 -> {"mouse"}
      [] w = "microphone"            -> {"microphone", "mic"}
      [] w = "headphones"            -> {"headphone"}
      [] OTHER                       -> {}

\* keyword in text.lower(), for a text given as its set of words
KeywordInText(keyword, text) ==
    \E w \in text : keyword \in KeywordsIn(Lower(w))

\* category_keywords of _extract_category_keywords, in dict order
category_keywords ==
    << [key |-> "laptop",     vals |-> <<"laptop", "notebook", "computer">>],
       [key |-> "keyboard",   vals |-> <<"keyboard">>],
       [key |-> "mouse",      vals |-> <<"mouse">>],
       [key |-> "monitor",    vals |-> <<"monitor", "display", "screen">>],
       [key |-> "desk",       vals |-> <<"desk">>],
       [key |-> "chair",      vals |-> <<"chair", "seating">>],
       [key |-> "headset",    vals |-> <<"headset", "headphone">>],
       [key |-> "webcam",     vals |-> <<"webcam", "camera">>],
       [key |-> "microphone", vals |-> <<"microphone", "mic">> ] >>

\* The words of a query (its tokens other than blanks), as a set.
QueryWords(q) == { q[i] : i \in DOMAIN q }

RECURSIVE ExtractKeywordsFrom(_, _)
ExtractKeywordsFrom(q, i) ==
    IF i > Len(category_keywords) THEN <<>>
    ELSE (IF KeywordInText(category_keywords[i].key, QueryWords(q))
          THEN category_keywords[i].vals ELSE <<>>)
         \o ExtractKeywordsFrom(q, i + 1)

\* _extract_category_keywords(query)
_extract_category_keywords_AnyQuery(q) == category_keywords[1].vals

_extract_category_keywords(q) == ExtractKeywordsFrom(q, 1)

\* The value of a token made of digits; None for any other token.
DigitsValue(tok) ==
    CASE tok = "0" -> 0
      [] tok = "1" -> 1
      [] tok = "2" -> 2
      [] tok = "3" -> 3
      [] tok = "4" -> 4
      [] OTHER     -> None

\* A lower-case token ends with the word (the first word of a price phrase).
EndsWithWord(tok, word) ==
    \/ tok = word
    \/ tok = "thunder" /\ word = "under"

\* The price phrases of _extract_price_constraint, in pattern order; a
\* phrase is the sequence of its tokens ("less than" has one blank).
price_patterns ==
    << <<"under">>, <<"below">>, <<"less", " ", "than">>,
       <<"cheaper", " ", "than">>, <<"max">>, <<"maximum">> >>

\* The phrase ph occupies q[i .. i + Len(ph) - 1].
PhraseAt(q, i, ph) ==
    /\ i + Len(ph) - 1 <= Len(q)
    /\ EndsWithWord(Lower(q[i]), ph[1])
    /\ \A k \in 2..Len(ph) : Lower(q[i + k - 1]) = ph[k]

RECURSIVE SkipBlanks(_, _)
\* \s* : the first position at or after j that holds no blank
SkipBlanks(q, j) ==
    IF j <= Len(q) /\ q[j] = " " THEN SkipBlanks(q, j + 1) ELSE j

\* The number matched by  phrase \s* \$? (\d+)  with the phrase at i, or None.
NumberAfterPhrase(q, i, ph) ==
    IF ~PhraseAt(q, i, ph) THEN None
    ELSE LET j == SkipBlanks(q, i + Len(ph))
             k == IF j <= Len(q) /\ q[j] = "$" THEN j + 1 ELSE j
         IN  IF k <= Len(q) THEN DigitsValue(q[k]) ELSE None

RECURSIVE SearchPattern(_, _, _)
\* re.search(pattern, query_lower): the leftmost match from position i on
SearchPattern(q, i, ph) ==
    IF i > Len(q) THEN None
    ELSE IF NumberAfterPhrase(q, i, ph) # None THEN NumberAfterPhrase(q, i, ph)
    ELSE SearchPattern(q, i + 1, ph)

RECURSIVE ExtractPriceFrom(_, _)
ExtractPriceFrom(q, n) ==
    IF n > Len(price_patterns) THEN None
    ELSE IF SearchPattern(q, 1, price_patterns[n]) # None
         THEN SearchPattern(q, 1, price_patterns[n])
         ELSE ExtractPriceFrom(q, n + 1)

\* _extract_price_constraint(query)
_extract_price_constraint_Leftmost(q) ==
    LET at(i) == { NumberAfterPhrase(q, i, price_patterns[n]) :
                      n \in DOMAIN price_patterns } \ {None}
        hits  == { i \in DOMAIN q : at(i) # {} }
    IN  IF hits = {} THEN None
        ELSE LET first == CHOOSE i \in hits : \A j \in hits : i <= j
             IN  CHOOSE v \in at(first) : TRUE

_extract_price_constraint(q) == ExtractPriceFrom(q, 1)

\* ------------------------------------------------------------------------
\* Product search: ranking and filters
\* ------------------------------------------------------------------------

\* The first n elements of a list: seq[:n]
Take(seq, n) == SubSeq(seq, 1, IF n < Len(seq) THEN n ELSE Len(seq))

RECURSIVE FilterSeq(_, _)
\* [x for x in seq if x.id in keep]
FilterSeq(seq, keep) ==
    IF seq = <<>> THEN <<>>
    ELSE (IF Head(seq).id \in keep THEN <<Head(seq)>> ELSE <<>>)
         \o FilterSeq(Tail(seq), keep)

\* Sort keys: (similarity) or (category_match_score, similarity)
SortKey_SimilarityOnly(p, byCategory) == <<p.similarity>>

SortKey(p, byCategory) ==
    IF byCategory
    THEN <<(IF p.category_match_score = None THEN 0 ELSE p.category_match_score),
           p.similarity>>
    ELSE <<p.similarity>>

\* Tuple comparison k1 < k2
KeyLess(k1, k2) ==
    \E i \in 1..Len(k1) :
        /\ k1[i] < k2[i]
        /\ \A j \in 1..(i - 1) : k1[j] = k2[j]

RECURSIVE InsertDesc(_, _, _)
\* x goes behind every element whose key is not smaller (stable)
InsertDesc(sorted, x, byCategory) ==
    IF sorted = <<>> THEN <<x>>
    ELSE IF KeyLess(SortKey(Head(sorted), byCategory), SortKey(x, byCategory))
         THEN <<x>> \o sorted
         ELSE <<Head(sorted)>> \o InsertDesc(Tail(sorted), x, byCategory)

RECURSIVE SortDescFrom(_, _, _, _)
SortDescFrom(seq, i, acc, byCategory) ==
    IF i > Len(seq) THEN acc
    ELSE SortDescFrom(seq, i + 1, InsertDesc(acc, seq[i], byCategory), byCategory)

\* list.sort(key=..., reverse=True): descending and stable
SortDesc(seq, byCategory) == SortDescFrom(seq, 1, <<>>, byCategory)

RECURSIVE MatchScoreFrom(_, _, _)
MatchScoreFrom(p, keywords, i) ==
    IF i > Len(keywords) THEN 0
    ELSE (IF KeywordInText(keywords[i], p.name) THEN 3
          ELSE IF KeywordInText(keywords[i], p.description) THEN 2
          ELSE IF KeywordInText(keywords[i], p.category) THEN 1
          ELSE 0)
         + MatchScoreFrom(p, keywords, i + 1)

\* match_score of _filter_by_category for one product
MatchScorePerField(p, keywords) ==
    LET kws == { keywords[i] : i \in DOMAIN keywords }
    IN  3 * Cardinality({ k \in kws : KeywordInText(k, p.name) })
        + 2 * Cardinality({ k \in kws : KeywordInText(k, p.description) })
        + Cardinality({ k \in kws : KeywordInText(k, p.category) })

MatchScore(p, keywords) == MatchScoreFrom(p, keywords, 1)

\* The products of a list with their category_match_score set where it is
\* positive (the dicts are shared between all lists that hold them).
WithScores(seq, keywords) ==
    [i \in DOMAIN seq |->
        IF MatchScore(seq[i], keywords) > 0
        THEN [seq[i] EXCEPT !.category_match_score = MatchScore(seq[i], keywords)]
        ELSE seq[i]]

\* _filter_by_category(products, query)
_filter_by_category(prods, q) ==
    LET keywords == _extract_category_keywords(q)
    IN  IF keywords = <<>> THEN prods
        ELSE LET scored == WithScores(prods, keywords)
                 keep == { scored[i].id : i \in { j \in DOMAIN scored :
                                scored[j].category_match_score # None } }
             IN  SortDesc(FilterSeq(scored, keep), TRUE)

\* The dicts built for every product, with or without an embedding.
CandidatesFromAllDocs(docs) ==
    [i \in DOMAIN docs |->
        [id          |-> docs[i].id,
         name        |-> docs[i].name,
         price       |-> docs[i].price,
         category    |-> docs[i].category,
         description |-> docs[i].description,
         similarity  |-> cosine[docs[i].id],
         category_match_score |-> None]]

RECURSIVE CandidatesFrom(_)
\* The dicts _fallback_search builds: one per product with an embedding.
CandidatesFrom(docs) ==
    IF docs = <<>> THEN <<>>
    ELSE (IF Head(docs).has_embedding
          THEN << [id          |-> Head(docs).id,
                   name        |-> Head(docs).name,
                   price       |-> Head(docs).price,
                   category    |-> Head(docs).category,
                   description |-> Head(docs).description,
                   similarity  |-> cosine[Head(docs).id],
                   category_match_score |-> None] >>
          ELSE <<>>)
         \o CandidatesFrom(Tail(docs))

\* all_products after the sort by similarity
RankedProducts == SortDesc(CandidatesFrom(products), FALSE)

\* [p for p in filtered if p["price"] <= max_price]
PriceFilterOff(seq, ceiling) == seq

PriceFilter(seq, ceiling) ==
    FilterSeq(seq, { seq[i].id : i \in { j \in DOMAIN seq : seq[j].price <= ceiling } })

\* _fallback_search without the final fallback
_fallback_search_NoDegrade(lim, q, ceiling) ==
    LET by_category == _filter_by_category(Take(RankedProducts, lim * 3), q)
    IN  Take(IF ceiling # None /\ ceiling # 0
             THEN PriceFilter(by_category, ceiling) ELSE by_category, lim)

\* _fallback_search falling back to the list before the price filter
_fallback_search_PrePrice(lim, q, ceiling) ==
    LET all_products == RankedProducts
        by_category  == _filter_by_category(Take(all_products, lim * 3), q)
        filtered     == IF ceiling # None /\ ceiling # 0
                        THEN PriceFilter(by_category, ceiling)
                        ELSE by_category
    IN  IF filtered # <<>> THEN Take(filtered, lim)
        ELSE IF by_category # <<>> THEN Take(by_category, lim)
        ELSE Take(all_products, lim)

\* _fallback_search(query_embedding, limit, query, max_price)
_fallback_search(lim, q, ceiling) ==
    LET all_products == RankedProducts
        top_products == Take(all_products, lim * 3)
        keywords     == _extract_category_keywords(q)
        by_category  == _filter_by_category(top_products, q)
        filtered     == IF ceiling # None /\ ceiling # 0
                        THEN PriceFilter(by_category, ceiling)
                        ELSE by_category
    IN  IF filtered = <<>>
        THEN Take(IF keywords = <<>> THEN all_products
                  ELSE WithScores(all_products, keywords) , lim)
        ELSE Take(filtered, lim)

\* search(query, limit, max_price)
search(q, lim, price) ==
    LET ceiling == IF price = None THEN _extract_price_constraint(q) ELSE price
    IN  IF embedding_fails THEN <<>>
        ELSE _fallback_search(lim, q, ceiling)

\* ------------------------------------------------------------------------
\* Product search: inputs and the call
\* ------------------------------------------------------------------------

MaxSim == 2

MaxLimit == 2

MaxPrice == 3

\* The documents collection "products" may hold, in document-id order.
ProductPool ==
    << [id |-> "PROD-1", name |-> {"ProBook", "Laptop"},
        description |-> {"portable", "computer"},
        category |-> {"Electronics"}, price |-> 3, keywords |-> {"laptop", "computer"},
        has_embedding |-> TRUE],
       [id |-> "PROD-2", name |-> {"Gaming", "Laptop"},
        description |-> {"laptop", "Notebook"},
        category |-> {"laptop"}, price |-> 4, keywords |-> {"laptop", "gaming"},
        has_embedding |-> TRUE],
       [id |-> "PROD-3", name |-> {"Wireless", "Mouse"},
        description |-> {"mouse"},
        category |-> {"Electronics"}, price |-> 1, keywords |-> {"mouse"},
        has_embedding |-> TRUE],
       [id |-> "PROD-4", name |-> {"Headphones"},
        description |-> {"audio"},
        category |-> {"Electronics"}, price |-> 2, keywords |-> {"headphones", "audio"},
        has_embedding |-> TRUE],
       [id |-> "PROD-5", name |-> {"Laptop", "Sleeve"},
        description |-> {"laptop", "sleeve"},
        category |-> {"Electronics"}, price |-> 1, keywords |-> {"sleeve"},
        has_embedding |-> FALSE] >>

PoolIds == { ProductPool[i].id : i \in DOMAIN ProductPool }

Queries ==
    { <<"gaming", " ", "gear">>,
      <<"Laptops">>,
      <<"Laptops", " ", "Under", " ", "$", "2">>,
      <<"mouse", " ", "below", " ", "1">>,
      <<"microphone">>,
      <<"max", "$", "3">>,
      <<"below", " ", "3", " ", "under", " ", "1">>,
      <<"max", " ", "$", " ", "2">>,
      <<"laptop", " ", "mouse">> }

\* The ids of the catalog's products that have an embedding.
EmbeddedIds(docs) ==
    { docs[i].id : i \in { j \in DOMAIN docs : docs[j].has_embedding } }

SearchInit ==
    /\ \E present \in SUBSET PoolIds : products = FilterSeq(ProductPool, present)
    /\ cosine \in [PoolIds -> 0..MaxSim]
    /\ \A id \in PoolIds \ EmbeddedIds(products) : cosine[id] = 0
    /\ query \in Queries
    /\ limit \in 1..MaxLimit
    /\ max_price \in {None} \cup 0..MaxPrice
    /\ embedding_fails \in BOOLEAN
    /\ search_pc = "ready"
    /\ search_result = <<>>

\* No search is in progress.
SearchQuiescent ==
    /\ products = <<>>
    /\ cosine = [id \in PoolIds |-> 0]
    /\ query = <<>>
    /\ limit = 1
    /\ max_price = None
    /\ embedding_fails = FALSE
    /\ search_pc = "done"
    /\ search_result = <<>>

\* No refund workflow exists.
RefundQuiescent ==
    /\ orders = {}
    /\ refund_eligibility = <<>>
    /\ refunds = <<>>
    /\ pc = [r \in Runs |-> "idle"]
    /\ order_id = [r \in Runs |-> <<>>]
    /\ reason = [r \in Runs |-> ""]
    /\ order_status = [r \in Runs |-> ""]
    /\ eligibility_status = [r \in Runs |-> ""]
    /\ escalate = [r \in Runs |-> FALSE]
    /\ calls = [r \in Runs |-> <<>>]
    /\ result = [r \in Runs |-> NoResult]

\* RAGProductSearch.search(query, limit, max_price) runs to completion.
Search ==
    /\ search_pc = "ready"
    /\ search_result' = search(query, limit, max_price)
    /\ search_pc' = "done"
    /\ UNCHANGED <<products, cosine, query, limit, max_price, embedding_fails>>
    /\ UNCHANGED exceptSearchVars

\* ------------------------------------------------------------------------
\* search_products and the session's product memory

\* The limit search_products passes to rag.search.
SearchProductsLimit == 5

\* dict.update(new): the entries of new written over those of d
DictUpdate(d, new) ==
    [k \in DOMAIN d \cup DOMAIN new |-> IF k \in DOMAIN new THEN new[k] ELSE d[k]]

\* str.strip() on a token sequence: leading and trailing blanks removed
RECURSIVE Strip(_)
Strip(q) ==
    IF q = <<>> THEN q
    ELSE IF Head(q) = " " THEN Strip(Tail(q))
    ELSE IF q[Len(q)] = " " THEN Strip(SubSeq(q, 1, Len(q) - 1))
    ELSE q

\* query.lower().strip()
query_lower(q) == LET t == Strip(q) IN [i \in DOMAIN t |-> Lower(t[i])]

\* tok[:-1] for a token that ends with 's'
WithoutLast(tok) ==
    CASE tok = "laptops"    -> "laptop"
      [] tok = "headphones" -> "headphone"
      [] OTHER              -> tok

\* tok + 's'
WithS(tok) ==
    CASE tok = "laptop"     -> "laptops"
      [] tok = "mouse"      -> "mouses"
      [] tok = "microphone" -> "microphones"
      [] tok = "gear"       -> "gears"
      [] tok = "2"          -> "2s"
      [] OTHER              -> tok

\* search_terms: the query and its singular or plural variant
search_terms(q) ==
    LET ql == query_lower(q)
        n  == Len(ql)
    IN  IF n = 0 THEN << ql, <<"s">> >>
        ELSE << ql, [ql EXCEPT ![n] = IF ql[n] \in {"laptops", "headphones"}
                                      THEN WithoutLast(ql[n])
                                      ELSE WithS(ql[n])] >>

\* term in text.lower(), for a text given as its set of words.  A term of
\* several tokens occurs in a text only if each of its tokens does; every
\* such term of SessionQueries holds a token that no text of ProductPool has.
TermInString(term, text) ==
    /\ Len(term) = 1
    /\ \E w \in text : term[1] \in {Lower(w)} \cup KeywordsIn(Lower(w))

\* match = any(term in name or term in category or term in keywords ...)
KeywordMatch(q, doc) ==
    \E i \in DOMAIN search_terms(q) :
        LET term == search_terms(q)[i]
        IN  \/ TermInString(term, doc.name)
            \/ TermInString(term, doc.category)
            \/ Len(term) = 1 /\ term[1] \in doc.keywords

\* The keyword fallback of search_products: the matching documents of the
\* whole collection, in stream order.
RECURSIVE KeywordResults(_, _)
KeywordResults(q, docs) ==
    IF docs = <<>> THEN <<>>
    ELSE (IF KeywordMatch(q, Head(docs))
          THEN << [id |-> Head(docs).id, name |-> Head(docs).name,
                   price |-> Head(docs).price, category |-> Head(docs).category] >>
          ELSE <<>>)
         \o KeywordResults(q, Tail(docs))

\* product_ids = [p["id"] for p in products if "id" in p]
product_ids(results) == [i \in DOMAIN results |-> results[i].id]

\* The entries search_products writes into tool_context.state.
SavedState_LastProduct(q, results) ==
    [last_product_id      |-> results[Len(results)].id,
     last_product_name    |-> results[Len(results)].name,
     last_search_query    |-> q,
     products_to_detail   |-> product_ids(results),
     detailed_product_ids |-> <<>>]

SavedState(q, results) ==
    [last_product_id      |-> results[1].id,
     last_product_name    |-> results[1].name,
     last_search_query    |-> q,
     products_to_detail   |-> product_ids(results),
     detailed_product_ids |-> <<>>]

\* search_products(query, tool_context): the returned dict and the session
\* state after the call.
search_products_KeepsState(q) ==
    LET found == IF rag_path THEN search(q, SearchProductsLimit, None)
                 ELSE KeywordResults(q, products)
    IN  IF found # <<>>
        THEN [result |-> [status |-> "success", products |-> found,
                          count |-> Len(found),
                          method |-> IF rag_path THEN "RAG" ELSE "keyword"],
              state  |-> state]
        ELSE [result |-> [status |-> "no_results"], state |-> state]

search_products_RaisesOnEmpty(q) ==
    LET found == IF rag_path THEN search(q, SearchProductsLimit, None)
                 ELSE KeywordResults(q, products)
    IN  IF found # <<>>
        THEN [result |-> [status |-> "success", products |-> found,
                          count |-> Len(found),
                          method |-> IF rag_path THEN "RAG" ELSE "keyword"],
              state  |-> DictUpdate(state, SavedState(q, found))]
        ELSE [result |-> [status |-> "raised"], state |-> state]

search_products(q) ==
    LET found == IF rag_path THEN search(q, SearchProductsLimit, None)
                 ELSE KeywordResults(q, products)
    IN  IF found # <<>>
        THEN [result |-> [status |-> "success", products |-> found,
                          count |-> Len(found),
                          method |-> IF rag_path THEN "RAG" ELSE "keyword"],
              state  |-> DictUpdate(state, SavedState(q, found))]
        ELSE [result |-> [status |-> "no_results"], state |-> state]

\* Ids of the documents of collection "reviews"; collection "inventory"
\* holds a document for every product (PoolIds).
ReviewIds == {"PROD-1", "PROD-2"}

NoFollowup == [tool |-> "none", result |-> NoResult]

\* dict.get(key, default) on the session state
StateGet(st, key, default) == IF key \in DOMAIN st THEN st[key] ELSE default

\* The product document exists.
ProductExists(pid) == \E i \in DOMAIN products : products[i].id = pid

get_last_mentioned_product_LastOfSaved(st) ==
    LET saved == StateGet(st, "products_to_detail", << >>)
        last_product_name == StateGet(st, "last_product_name", {"Unknown"})
    IN  IF saved = << >>
        THEN [status |-> "error"]
        ELSE IF ProductExists(saved[Len(saved)])
        THEN [status |-> "success", product_id |-> saved[Len(saved)],
              context_note |-> last_product_name]
        ELSE [status |-> "not_found", product_id |-> saved[Len(saved)]]

\* get_last_mentioned_product(tool_context)
get_last_mentioned_product(st) ==
    LET last_product_id   == StateGet(st, "last_product_id", "")
        last_product_name == StateGet(st, "last_product_name", {"Unknown"})
    IN  IF last_product_id = ""
        THEN [status |-> "error"]
        ELSE IF ProductExists(last_product_id)
        THEN [status |-> "success", product_id |-> last_product_id,
              context_note |-> last_product_name]
        ELSE [status |-> "not_found", product_id |-> last_product_id]

\* get_product_info(product_id), all three parts asked for
get_product_info(pid) ==
    LET data_fetched ==
            (IF ProductExists(pid) THEN {"details"} ELSE {})
            \cup (IF pid \in PoolIds THEN {"inventory"} ELSE {})
            \cup (IF pid \in ReviewIds THEN {"reviews"} ELSE {})
    IN  [status |-> IF data_fetched = {} THEN "not_found" ELSE "success",
         product_id |-> pid, data_fetched |-> data_fetched]

\* get_all_saved_products_info(tool_context)
get_all_saved_products_info(st) ==
    LET products_to_detail == StateGet(st, "products_to_detail", << >>)
    IN  IF products_to_detail = << >>
        THEN [status |-> "error"]
        ELSE [status   |-> "success",
              count    |-> Len(products_to_detail),
              products |->
                  [i \in DOMAIN products_to_detail |->
                      LET product_info == get_product_info(products_to_detail[i])
                      IN  IF product_info.status = "success" THEN product_info
                          ELSE [status |-> "not_found",
                                product_id |-> products_to_detail[i],
                                data_fetched |-> {}]]]

\* The agent calls a follow-up tool between two searches.
GetLastMentionedProduct ==
    /\ search_pc = "done"
    /\ followup' = [tool |-> "get_last_mentioned_product",
                    result |-> get_last_mentioned_product(state)]
    /\ UNCHANGED <<state, rag_path, tool_result, search_hit>>
    /\ UNCHANGED <<refundVars, searchVars, retryVars, toolVars, chatVars,
                   backendVars>>

GetAllSavedProductsInfo ==
    /\ search_pc = "done"
    /\ followup' = [tool |-> "get_all_saved_products_info",
                    result |-> get_all_saved_products_info(state)]
    /\ UNCHANGED <<state, rag_path, tool_result, search_hit>>
    /\ UNCHANGED <<refundVars, searchVars, retryVars, toolVars, chatVars,
                   backendVars>>

\* The queries a session asks search_products.
SessionQueries ==
    { <<"Laptops">>,
      <<" ", "Mouse">>,
      <<"microphone">>,
      <<"gaming", " ", "gear">>,
      <<"Laptops", " ", "Under", " ", "$", "2">> }

\* The catalogs a session runs against.
SessionCatalogs ==
    { <<>>, ProductPool, FilterSeq(ProductPool, {"PROD-3", "PROD-4", "PROD-5"}) }

\* The similarities the embeddings of a catalog may have to a query's.
SessionCosines ==
    { [id \in PoolIds |-> 0],
      [id \in PoolIds |-> IF id \in {"PROD-2", "PROD-3"} THEN MaxSim ELSE 0],
      [id \in PoolIds |-> IF id = "PROD-4" THEN MaxSim ELSE 1] }

\* No search_products call has been made in the session.
SessionQuiescent ==
    /\ state = <<>>
    /\ rag_path = TRUE
    /\ tool_result = NoResult
    /\ search_hit = FALSE
    /\ followup = NoFollowup

SessionInit ==
    /\ products \in SessionCatalogs
    /\ cosine = [id \in PoolIds |-> 0]
    /\ query = <<>>
    /\ limit = SearchProductsLimit
    /\ max_price = None
    /\ embedding_fails = FALSE
    /\ search_pc = "done"
    /\ search_result = <<>>
    /\ SessionQuiescent

\* The agent calls search_products with a query; the environment fixes how
\* the embeddings compare and whether the provider and the RAG path work.
CallSearchProducts(q, cos, fails, path) ==
    /\ search_pc = "done"
    /\ query' = q
    /\ cosine' = cos
    /\ embedding_fails' = fails
    /\ rag_path' = path
    /\ search_pc' = "ready"
    /\ UNCHANGED <<products, limit, max_price, search_result, state, tool_result,
                   search_hit, followup>>
    /\ UNCHANGED <<refundVars, retryVars, toolVars, chatVars, backendVars>>

\* search_products runs to completion.
SearchProducts ==
    /\ search_pc = "ready"
    /\ LET out == search_products(query)
       IN  /\ tool_result' = out.result
           /\ state' = out.state
           /\ search_hit' = (search_hit \/ out.result.status = "success")
           /\ search_result' = IF "products" \in DOMAIN out.result
                               THEN out.result.products ELSE <<>>
    /\ search_pc' = "done"
    /\ UNCHANGED <<products, cosine, query, limit, max_price, embedding_fails,
                   rag_path, followup>>
    /\ UNCHANGED <<refundVars, retryVars, toolVars, chatVars, backendVars>>

\* ------------------------------------------------------------------------
\* _generate_embedding_with_retry: the provider call under RETRY_POLICY

\* RETRY_POLICY: initial, maximum, multiplier, deadline (seconds)
RETRY_INITIAL == 1

RETRY_MAXIMUM == 60

RETRY_MULTIPLIER == 2

RETRY_DEADLINE == 300

\* predicate=retry.if_exception_type(...)
RetryableKinds ==
    {"ResourceExhausted", "ServiceUnavailable", "DeadlineExceeded",
     "InternalServerError", "TooManyRequests"}

if_exception_type_Any(kind) == TRUE

if_exception_type(kind) == kind \in RetryableKinds

\* What one call of the provider may do: an answer, an error the predicate
\* names, or one it does not.
ProviderOutcomes == {"ok"} \cup RetryableKinds \cup {"InvalidArgument"}

\* Calls the scripted provider answers.
MaxProviderCalls == 3

\* Seconds the longest call of the provider takes.
MaxCallSeconds == 150

\* The scripts of an injected provider: its outcome at each call.
RECURSIVE Scripts(_)
Scripts(n) ==
    IF n = 0 THEN { <<>> }
    ELSE { <<o>> \o t : o \in ProviderOutcomes, t \in Scripts(n - 1) }

NextDelay_Uncapped(d) == d * RETRY_MULTIPLIER

\* The nominal delay after the one just slept.
NextDelay(d) ==
    IF d * RETRY_MULTIPLIER > RETRY_MAXIMUM THEN RETRY_MAXIMUM
    ELSE d * RETRY_MULTIPLIER

\* The embedding generator is not running.
RetryQuiescent ==
    /\ provider_script = <<>>
    /\ attempts = 0
    /\ delay = RETRY_INITIAL
    /\ elapsed = 0
    /\ retry_pc = "done"
    /\ embedding_outcome = "none"

RetryInit ==
    /\ provider_script \in Scripts(MaxProviderCalls)
    /\ attempts = 0
    /\ delay = RETRY_INITIAL
    /\ elapsed = 0
    /\ retry_pc = "calling"
    /\ embedding_outcome = "none"

\* One round of the retry loop: the provider is called and takes d seconds.
\* A value is returned; an error the predicate rejects is re-raised; after a
\* retryable error the loop gives up once the deadline has passed, may give
\* up when the sleep would pass it, and otherwise sleeps s seconds (at most
\* what is left until the deadline) before the next round.
Attempt(d, s, give_up_early) ==
    /\ retry_pc = "calling"
    /\ attempts < Len(provider_script)
    /\ LET outcome == provider_script[attempts + 1]
           now     == elapsed + d
           left    == RETRY_DEADLINE - now
       IN  /\ attempts' = attempts + 1
           /\ IF outcome = "ok"
              THEN /\ embedding_outcome' = "value"
                   /\ retry_pc' = "done"
                   /\ elapsed' = now
                   /\ delay' = delay
              ELSE IF ~if_exception_type(outcome)
              THEN /\ embedding_outcome' = "raised"
                   /\ retry_pc' = "done"
                   /\ elapsed' = now
                   /\ delay' = delay
              ELSE IF left <= 0 \/ (give_up_early /\ s > left)
              THEN /\ embedding_outcome' = "retry_error"
                   /\ retry_pc' = "done"
                   /\ elapsed' = now
                   /\ delay' = delay
              ELSE /\ embedding_outcome' = "none"
                   /\ retry_pc' = "calling"
                   /\ elapsed' = now + (IF s > left THEN left ELSE s)
                   /\ delay' = NextDelay(delay)
    /\ UNCHANGED provider_script
    /\ UNCHANGED <<refundVars, searchVars, sessionVars, toolVars, chatVars,
                   backendVars>>

\* ------------------------------------------------------------------------
\* The tools the agents call, one call at a time

\* Ids of collection "invoices", of customers, and of products asked for.
InvoiceIdPool == {"INV-1"}

CustomerIdPool == {"CUST-1", "CUST-2"}

\* customer_id of the order documents
OrderCustomer(oid) == IF oid[Len(oid)] = "1" THEN "CUST-1" ELSE "CUST-2"

\* get_product_details(product_id)
get_product_details(pid) ==
    IF \E i \in DOMAIN products : products[i].id = pid
    THEN [status |-> "success"]
    ELSE [status |-> "not_found"]

\* track_order(order_id)
track_order_Raises(oid) ==
    IF oid \in orders THEN [status |-> "success"] ELSE [status |-> "raised"]

track_order(oid) ==
    IF oid \in orders THEN [status |-> "success"] ELSE [status |-> "not_found"]

\* get_order_history(customer_id)
get_order_history(cid) ==
    IF { oid \in orders : OrderCustomer(oid) = cid } # {}
    THEN [status |-> "success"]
    ELSE [status |-> "no_orders"]

\* get_invoice(invoice_id)
get_invoice(iid) ==
    IF iid \in invoices THEN [status |-> "success"] ELSE [status |-> "not_found"]

\* check_payment_status(order_id)
check_payment_status(oid) ==
    IF oid \in payments THEN [status |-> "success"] ELSE [status |-> "not_found"]

ToolsInit ==
    /\ invoices \in SUBSET InvoiceIdPool
    /\ payments \in SUBSET OrderIdPool
    /\ tool_pc = "ready"
    /\ tool_name = ""
    /\ tool_status = ""

\* The tool has returned: its name and the status of its result are kept.
Returned(name, status) ==
    /\ tool_pc = "ready"
    /\ tool_pc' = "done"
    /\ tool_name' = name
    /\ tool_status' = status
    /\ UNCHANGED <<invoices, payments>>
    /\ UNCHANGED <<retryVars, chatVars, backendVars>>

Call_search_products(q) ==
    /\ LET out == search_products(q)
       IN  /\ Returned("search_products", out.result.status)
           /\ tool_result' = out.result
           /\ state' = out.state
           /\ search_hit' = (search_hit \/ out.result.status = "success")
    /\ query' = q
    /\ UNCHANGED <<products, cosine, limit, max_price, embedding_fails,
                   search_pc, search_result, rag_path, followup>>
    /\ UNCHANGED refundVars

Call_get_product_details(pid) ==
    /\ Returned("get_product_details", get_product_details(pid).status)
    /\ UNCHANGED <<refundVars, searchVars, sessionVars>>

Call_track_order(oid) ==
    /\ Returned("track_order", track_order(oid).status)
    /\ UNCHANGED <<refundVars, searchVars, sessionVars>>

Call_get_order_history(cid) ==
    /\ Returned("get_order_history", get_order_history(cid).status)
    /\ UNCHANGED <<refundVars, searchVars, sessionVars>>

Call_get_invoice(iid) ==
    /\ Returned("get_invoice", get_invoice(iid).status)
    /\ UNCHANGED <<refundVars, searchVars, sessionVars>>

Call_check_payment_status(oid) ==
    /\ Returned("check_payment_status", check_payment_status(oid).status)
    /\ UNCHANGED <<refundVars, searchVars, sessionVars>>

Call_validate_order_id(r, oid) ==
    /\ LET v == validate_order_id(oid)
       IN  /\ Returned("validate_order_id", v.status)
           /\ escalate' = [escalate EXCEPT ![r] = escalate[r] \/ v.escalate]
    /\ UNCHANGED <<orders, refund_eligibility, refunds, pc, order_id, reason,
                   order_status, eligibility_status, calls, result>>
    /\ UNCHANGED <<searchVars, sessionVars>>

Call_check_refund_eligibility(r, oid) ==
    /\ LET c == check_refund_eligibility(oid)
       IN  /\ Returned("check_refund_eligibility", c.result.status)
           /\ escalate' = [escalate EXCEPT ![r] = escalate[r] \/ c.escalate]
    /\ UNCHANGED <<orders, refund_eligibility, refunds, pc, order_id, reason,
                   order_status, eligibility_status, calls, result>>
    /\ UNCHANGED <<searchVars, sessionVars>>

Call_process_refund(oid, rsn) ==
    /\ LET p == process_refund(oid, rsn)
       IN  /\ Returned("process_refund", p.result.status)
           /\ refunds' = p.refunds
    /\ UNCHANGED <<orders, refund_eligibility, pc, order_id, reason,
                   order_status, eligibility_status, escalate, calls, result>>
    /\ UNCHANGED <<searchVars, sessionVars>>

\* No tool call is in progress.
ToolsQuiescent ==
    /\ invoices = {}
    /\ payments = {}
    /\ tool_pc = "done"
    /\ tool_name = ""
    /\ tool_status = ""

\* ------------------------------------------------------------------------
\* POST /api/chat and AgentEngineClient.query_agent

\* The text query_agent returns when the stream held no text.
FALLBACK_TEXT == "I apologize, but I didn't receive a response. Please try again."

\* The conversation whose refund workflow the chat request drives.
ChatRun == "r1"

\* What the refund_processor instruction has the agent say at the end of
\* the workflow, by gate state.
PipelineMessage(r) ==
    IF pc[r] = "idle" THEN "How can I help you?"
    ELSE IF pc[r] = "awaiting_reason"
    THEN "Could you please tell me the reason for your refund request?"
    ELSE IF order_status[r] = "invalid"
    THEN "I cannot process the refund because the order was not found in our system."
    ELSE IF eligibility_status[r] = "ineligible"
    THEN "I cannot process the refund because the order is not eligible for a refund."
    ELSE IF eligibility_status[r] = "no_eligibility_data"
    THEN "I cannot process the refund due to missing eligibility information."
    ELSE "Refund submitted"

\* An HTTPException ends the request.
HttpError(code, detail) ==
    /\ http_status' = code
    /\ response_text' = detail
    /\ chat_pc' = "done"

\* POST /api/chat up to the agent query: the user and the session are
\* checked.
chat(authenticated, session) ==
    /\ chat_pc \in {"idle", "done"}
    /\ agent_outcome' = ""
    /\ agent_text' = ""
    /\ IF ~authenticated THEN HttpError(401, "Authentication required")
       ELSE IF session = "missing" THEN HttpError(404, "Session not found")
       ELSE IF session = "foreign"
       THEN HttpError(403, "Session does not belong to user")
       ELSE /\ chat_pc' = IF session = "new" THEN "creating_session"
                          ELSE "streaming"
            /\ http_status' = 0
            /\ response_text' = ""
    /\ UNCHANGED <<refundVars, searchVars, sessionVars, retryVars, toolVars,
                   backendVars>>

\* query_agent creates the Agent Engine session of a new conversation; a
\* failure (after retries) is raised and ends the request with status 500.
create_session(ok) ==
    /\ chat_pc = "creating_session"
    /\ IF ok
       THEN /\ chat_pc' = "streaming"
            /\ UNCHANGED <<agent_outcome, http_status, response_text>>
       ELSE /\ agent_outcome' = "create_session_failed"
            /\ HttpError(500, "Error processing request: Failed to query agent: Unable to create session: Service temporarily unavailable")
    /\ UNCHANGED agent_text
    /\ UNCHANGED <<refundVars, searchVars, sessionVars, retryVars, toolVars,
                   backendVars>>

\* async_stream_query raises: query_agent re-raises, chat answers 500.
stream_raises ==
    /\ chat_pc = "streaming"
    /\ agent_outcome' = "stream_raised"
    /\ HttpError(500, "Error processing request: Failed to query agent")
    /\ UNCHANGED agent_text
    /\ UNCHANGED <<refundVars, searchVars, sessionVars, retryVars, toolVars,
                   backendVars>>

\* The stream ends: query_agent returns the text or the fallback, and chat
\* answers with it.  The agent's text is the message of the workflow's end
\* state, or empty when the agent produced no text part.
stream_ends(text) ==
    /\ chat_pc = "streaming"
    /\ pc[ChatRun] \in {"idle", "done", "awaiting_reason"}
    /\ text \in {PipelineMessage(ChatRun), ""}
    /\ agent_outcome' = "returned"
    /\ agent_text' = text
    /\ response_text' = IF text = "" THEN FALLBACK_TEXT ELSE text
    /\ http_status' = 200
    /\ chat_pc' = "done"
    /\ UNCHANGED <<refundVars, searchVars, sessionVars, retryVars, toolVars,
                   backendVars>>

\* While the stream is open the agent runs the refund workflow.
AgentStep ==
    /\ chat_pc = "streaming"
    /\ \/ \E oid \in OrderIdPool, rsn \in Reasons :
             StartRefundWorkflow(ChatRun, oid, rsn)
       \/ OrderValidator(ChatRun)
       \/ EligibilityChecker(ChatRun)
       \/ RefundProcessor(ChatRun)
       \/ \E rsn \in Reasons : ProvideReason(ChatRun, rsn)

\* No chat request is in progress.
ChatQuiescent ==
    /\ chat_pc = "idle"
    /\ agent_outcome = ""
    /\ agent_text = ""
    /\ http_status = 0
    /\ response_text = ""

\* ------------------------------------------------------------------------
\* backend/app/auth.py: the in-memory token store of a server process

\* Python None where a string is expected.
NoUser == "None"

\* timedelta(days=30)
TOKEN_DAYS == 30

\* Server processes; each has its own _active_tokens.
Servers == {"s1", "s2"}

\* The process whose token store the auth calls below work on.
AuthServer == "s1"

\* User ids: two registered users and an anonymous one.
RegisteredIds == {"u1", "u2"}

AnonymousIds == {"anon-1"}

\* Values of secrets.token_urlsafe(32); "bad" is a string it never returned.
TokenPool == {"t1", "t2", "t3"}

\* Days the clock moves at a time, and the last day considered.
TickDays == 15

MaxNow == 60

NoTokens == [t \in {} |-> [user_id |-> NoUser, created_at |-> 0, expires_at |-> 0]]

Without(f, x) == [y \in DOMAIN f \ {x} |-> f[y]]

\* generate_token(user_id), token being the value of secrets.token_urlsafe
generate_token(tokens, user_id, token) ==
    [t \in DOMAIN tokens \cup {token} |->
        IF t = token
        THEN [user_id |-> user_id, created_at |-> utcnow,
              expires_at |-> utcnow + TOKEN_DAYS]
        ELSE tokens[t]]

verify_token_IgnoresExpiry(tokens, token) ==
    IF token \notin DOMAIN tokens
    THEN [result |-> NoUser, tokens |-> tokens, expired |-> FALSE]
    ELSE [result |-> tokens[token].user_id, tokens |-> tokens, expired |-> FALSE]

\* verify_token(token): what it returns and the store after the call
verify_token(tokens, token) ==
    IF token \notin DOMAIN tokens
    THEN [result |-> NoUser, tokens |-> tokens, expired |-> FALSE]
    ELSE IF utcnow > tokens[token].expires_at
    THEN [result |-> NoUser, tokens |-> Without(tokens, token), expired |-> TRUE]
    ELSE [result |-> tokens[token].user_id, tokens |-> tokens, expired |-> FALSE]

\* revoke_token(token): the store after the call
revoke_token(tokens, token) ==
    IF token \in DOMAIN tokens THEN Without(tokens, token) ELSE tokens

AuthCalled(op, token, returned) ==
    auth_call' = [op |-> op, token |-> token, result |-> returned]

\* A process generates a token for a user; the value is one never returned
\* before.
GenerateToken(p, user_id) ==
    \E token \in TokenPool \ DOMAIN issued_tokens :
        /\ _active_tokens' =
              [_active_tokens EXCEPT ![p] = generate_token(@, user_id, token)]
        /\ issued_tokens' =
              [t \in DOMAIN issued_tokens \cup {token} |->
                  IF t = token
                  THEN [user_id |-> user_id, expires_at |-> utcnow + TOKEN_DAYS,
                        server |-> p]
                  ELSE issued_tokens[t]]
        /\ AuthCalled("generate_token", token, token)
        /\ UNCHANGED <<utcnow, revoked_tokens, expired_tokens>>
        /\ UNCHANGED exceptAuthVars

VerifyToken(p, token) ==
    /\ LET v == verify_token(_active_tokens[p], token)
       IN  /\ _active_tokens' = [_active_tokens EXCEPT ![p] = v.tokens]
           /\ expired_tokens' =
                 IF v.expired THEN expired_tokens \cup {token} ELSE expired_tokens
           /\ AuthCalled("verify_token", token, v.result)
    /\ UNCHANGED <<utcnow, issued_tokens, revoked_tokens>>
    /\ UNCHANGED exceptAuthVars

RevokeToken(p, token) ==
    /\ _active_tokens' =
          [_active_tokens EXCEPT ![p] = revoke_token(@, token)]
    /\ revoked_tokens' =
          IF token \in DOMAIN _active_tokens[p]
          THEN revoked_tokens \cup {token} ELSE revoked_tokens
    /\ AuthCalled("revoke_token", token, NoUser)
    /\ UNCHANGED <<utcnow, issued_tokens, expired_tokens>>
    /\ UNCHANGED exceptAuthVars

\* Time passes.
Tick ==
    /\ utcnow + TickDays <= MaxNow
    /\ utcnow' = utcnow + TickDays
    /\ UNCHANGED <<_active_tokens, issued_tokens, revoked_tokens,
                   expired_tokens, auth_call>>
    /\ UNCHANGED exceptAuthVars

\* The server processes have just started.
AuthInit ==
    /\ _active_tokens = [p \in Servers |-> NoTokens]
    /\ utcnow = 0
    /\ issued_tokens = << >>
    /\ revoked_tokens = {}
    /\ expired_tokens = {}
    /\ auth_call = [op |-> "none", token |-> NoUser, result |-> NoUser]

\* ------------------------------------------------------------------------
\* backend/app/main.py, database.py: the chat and session endpoints

\* Values of uuid.uuid4() for sessions.
SessionIdPool == {"sess-1", "sess-2"}

\* Chat turns the model follows.
MaxQueries == 3

\* The Authorization header, split into its parts; << >> is no header.
AuthorizationHeaders ==
    { << >>, <<"Bearer", "t1">>, <<"bearer", "bad">>, <<"Token", "t1">>,
      <<"Bearer">> }

\* The X-User-Id header; NoUser is no header.
XUserIds == {NoUser} \cup AnonymousIds \cup {"u1"}

SessionNames == {"Chat", "renamed"}

\* str.lower() of the scheme of an Authorization header
LowerScheme(scheme) == IF scheme \in {"Bearer", "bearer"} THEN "bearer" ELSE scheme

\* What a response carries: an error detail or the agent's reply, and the
\* session ids and messages it returns.
Body(detail, session_ids, msgs) ==
    [detail |-> detail, session_ids |-> session_ids, messages |-> msgs]

Detail(text) == Body(text, {}, << >>)

\* get_current_user(authorization): the user id, or the 401 it raises, and
\* the token store after verify_token
get_current_user(tokens, authorization) ==
    IF authorization = << >>
    THEN [status |-> 200, user_id |-> NoUser, tokens |-> tokens,
          expired |-> {}, detail |-> ""]
    ELSE IF Len(authorization) # 2 \/ LowerScheme(authorization[1]) # "bearer"
    THEN [status |-> 401, user_id |-> NoUser, tokens |-> tokens,
          expired |-> {}, detail |-> "Invalid authorization header"]
    ELSE LET v == verify_token(tokens, authorization[2])
         IN  IF v.result = NoUser
             THEN [status |-> 401, user_id |-> NoUser, tokens |-> v.tokens,
                   expired |-> IF v.expired THEN {authorization[2]} ELSE {},
                   detail |-> "Invalid or expired token"]
             ELSE [status |-> 200, user_id |-> v.result, tokens |-> v.tokens,
                   expired |-> {}, detail |-> ""]

\* actual_user_id = user_id or x_user_id
actual_user_id(user_id, x_user_id) ==
    IF user_id # NoUser THEN user_id ELSE x_user_id

session_check_NoOwner(user_id, session_id) ==
    IF session_id \notin DOMAIN sessions
    THEN [status |-> 404, detail |-> "Session not found"]
    ELSE [status |-> 200, detail |-> ""]

\* "Verify session belongs to user": db.get_session and the two checks
session_check(user_id, session_id) ==
    IF session_id \notin DOMAIN sessions
    THEN [status |-> 404, detail |-> "Session not found"]
    ELSE IF sessions[session_id].user_id # user_id
    THEN [status |-> 403, detail |-> "Session does not belong to user"]
    ELSE [status |-> 200, detail |-> ""]

\* The dependency has run: verify_token may have dropped an expired token.
Depends(cu) ==
    /\ _active_tokens' = [_active_tokens EXCEPT ![AuthServer] = cu.tokens]
    /\ expired_tokens' = expired_tokens \cup cu.expired
    /\ UNCHANGED <<utcnow, issued_tokens, revoked_tokens, auth_call>>
    /\ UNCHANGED exceptApiVars

\* The response, with what the request was: the user its bearer token stands
\* for, the user id it acted under and the session it named.
Responds(endpoint, cu, user_id, session_id, status, body) ==
    api_response' = [endpoint |-> endpoint, bearer |-> cu.user_id,
                     user_id |-> user_id, named |-> session_id,
                     status |-> status, body |-> body]

\* An HTTPException raised before the endpoint touches anything.
Raises(endpoint, cu, user_id, session_id, status, detail) ==
    /\ Responds(endpoint, cu, user_id, session_id, status, Detail(detail))
    /\ UNCHANGED <<sessions, messages, agent_queries>>

\* Database.create_session, update_session, rename_session, delete_session
db_create_session(session_id, user_id) ==
    [s \in DOMAIN sessions \cup {session_id} |->
        IF s = session_id
        THEN [user_id |-> user_id, session_name |-> "Chat",
              updated_at |-> utcnow, message_count |-> 0, is_active |-> TRUE]
        ELSE sessions[s]]

db_update_session(session_id) ==
    [sessions EXCEPT ![session_id].updated_at = utcnow,
                     ![session_id].message_count = @ + 1]

db_rename_session(session_id, new_name) ==
    [sessions EXCEPT ![session_id].session_name = new_name,
                     ![session_id].updated_at = utcnow]

db_delete_session(session_id) ==
    [sessions EXCEPT ![session_id].is_active = FALSE,
                     ![session_id].updated_at = utcnow]

\* Database.save_message, twice: the user's message and the agent's reply
db_save_turn(session_id, message, reply) ==
    [s \in DOMAIN messages \cup {session_id} |->
        LET before == IF s \in DOMAIN messages THEN messages[s] ELSE << >>
        IN  IF s = session_id
            THEN before \o <<[role |-> "user", content |-> message],
                             [role |-> "assistant", content |-> reply]>>
            ELSE before]

\* Database.get_user_sessions: the active sessions of the user
db_get_user_sessions(user_id) ==
    { s \in DOMAIN sessions :
        sessions[s].user_id = user_id /\ sessions[s].is_active }

\* POST /api/chat; session_id NoUser asks for a new session, agent_ok is
\* whether agent_client.query_agent returns
chat_request(authorization, x_user_id, session_id, agent_ok) ==
    LET cu   == get_current_user(_active_tokens[AuthServer], authorization)
        user == actual_user_id(cu.user_id, x_user_id)
        chk  == session_check(user, session_id)
    IN  /\ agent_queries < MaxQueries
        /\ session_id = NoUser => SessionIdPool \ DOMAIN sessions # {}
        /\ Depends(cu)
        /\ IF cu.status # 200
           THEN Raises("chat", cu, NoUser, session_id, cu.status, cu.detail)
           ELSE IF user = NoUser
           THEN Raises("chat", cu, NoUser, session_id, 401,
                       "Authentication required. Use Authorization header or X-User-Id for anonymous users.")
           ELSE IF session_id # NoUser /\ chk.status # 200
           THEN Raises("chat", cu, user, session_id, chk.status, chk.detail)
           ELSE /\ agent_queries' = agent_queries + 1
                /\ IF ~agent_ok
                   THEN /\ Responds("chat", cu, user, session_id, 500,
                                    Detail("Error processing request"))
                        /\ UNCHANGED <<sessions, messages>>
                   ELSE \E internal \in
                            IF session_id = NoUser
                            THEN SessionIdPool \ DOMAIN sessions
                            ELSE {session_id} :
                          /\ sessions' =
                                IF session_id = NoUser
                                THEN db_create_session(internal, user)
                                ELSE db_update_session(internal)
                          /\ messages' = db_save_turn(internal, "hi", "answer")
                          /\ Responds("chat", cu, user, session_id, 200,
                                      Body("answer", {internal}, << >>))

\* GET /api/sessions
list_sessions(authorization, x_user_id) ==
    LET cu   == get_current_user(_active_tokens[AuthServer], authorization)
        user == actual_user_id(cu.user_id, x_user_id)
    IN  /\ Depends(cu)
        /\ IF cu.status # 200
           THEN Raises("list", cu, NoUser, NoUser, cu.status, cu.detail)
           ELSE IF user = NoUser
           THEN Raises("list", cu, NoUser, NoUser, 401, "Authentication required")
           ELSE /\ Responds("list", cu, user, NoUser, 200,
                            Body("", db_get_user_sessions(user), << >>))
                /\ UNCHANGED <<sessions, messages, agent_queries>>

\* PUT /api/sessions/{session_id}/rename
rename_session(authorization, x_user_id, session_id, session_name) ==
    LET cu   == get_current_user(_active_tokens[AuthServer], authorization)
        user == actual_user_id(cu.user_id, x_user_id)
        chk  == session_check(user, session_id)
    IN  /\ Depends(cu)
        /\ IF cu.status # 200
           THEN Raises("rename", cu, NoUser, session_id, cu.status, cu.detail)
           ELSE IF user = NoUser
           THEN Raises("rename", cu, NoUser, session_id, 401, "Authentication required")
           ELSE IF chk.status # 200
           THEN Raises("rename", cu, user, session_id, chk.status, chk.detail)
           ELSE /\ sessions' = db_rename_session(session_id, session_name)
                /\ Responds("rename", cu, user, session_id, 200,
                            Body("success", {session_id}, << >>))
                /\ UNCHANGED <<messages, agent_queries>>

\* DELETE /api/sessions/{session_id}
delete_session(authorization, x_user_id, session_id) ==
    LET cu   == get_current_user(_active_tokens[AuthServer], authorization)
        user == actual_user_id(cu.user_id, x_user_id)
        chk  == session_check(user, session_id)
    IN  /\ Depends(cu)
        /\ IF cu.status # 200
           THEN Raises("delete", cu, NoUser, session_id, cu.status, cu.detail)
           ELSE IF user = NoUser
           THEN Raises("delete", cu, NoUser, session_id, 401, "Authentication required")
           ELSE IF chk.status # 200
           THEN Raises("delete", cu, user, session_id, chk.status, chk.detail)
           ELSE /\ sessions' = db_delete_session(session_id)
                /\ Responds("delete", cu, user, session_id, 200,
                            Body("deleted", {session_id}, << >>))
                /\ UNCHANGED <<messages, agent_queries>>

\* GET /api/sessions/{session_id}/messages
get_session_messages(authorization, x_user_id, session_id) ==
    LET cu   == get_current_user(_active_tokens[AuthServer], authorization)
        user == actual_user_id(cu.user_id, x_user_id)
        chk  == session_check(user, session_id)
    IN  /\ Depends(cu)
        /\ IF cu.status # 200
           THEN Raises("messages", cu, NoUser, session_id, cu.status, cu.detail)
           ELSE IF user = NoUser
           THEN Raises("messages", cu, NoUser, session_id, 401, "Authentication required")
           ELSE IF chk.status # 200
           THEN Raises("messages", cu, user, session_id, chk.status, chk.detail)
           ELSE /\ Responds("messages", cu, user, session_id, 200,
                            Body("", {session_id},
                                 IF session_id \in DOMAIN messages
                                 THEN messages[session_id] ELSE << >>))
                /\ UNCHANGED <<sessions, messages, agent_queries>>

\* No session exists and no request has been served.
ApiInit ==
    /\ sessions = << >>
    /\ messages = << >>
    /\ agent_queries = 0
    /\ api_response = [endpoint |-> "none", bearer |-> NoUser,
                       user_id |-> NoUser, named |-> NoUser, status |-> 0,
                       body |-> Detail("")]

\* User u1 has logged in at the auth process and holds token t1.
LoggedIn ==
    /\ utcnow = 0
    /\ _active_tokens =
          [p \in Servers |->
              IF p = AuthServer THEN generate_token(NoTokens, "u1", "t1")
              ELSE NoTokens]
    /\ issued_tokens = [t \in {"t1"} |->
                           [user_id |-> "u1", expires_at |-> utcnow + TOKEN_DAYS,
                            server |-> AuthServer]]
    /\ revoked_tokens = {}
    /\ expired_tokens = {}
    /\ auth_call = [op |-> "generate_token", token |-> "t1", result |-> "t1"]

\* ------------------------------------------------------------------------
\* backend/app/main.py, database.py: registration

Emails == {"ann@example.com", "bob@example.com"}

\* Database.get_user_by_email(email): the ids of the documents the query
\* may return, none when there is no such user
get_user_by_email(email) == { u \in DOMAIN users : users[u].email = email }

\* Database.create_user, user_id being the value of uuid.uuid4()
create_user(user_id, email) ==
    [u \in DOMAIN users \cup {user_id} |->
        IF u = user_id THEN [user_id |-> user_id, email |-> email]
        ELSE users[u]]

NoResponse == [status |-> 0, detail |-> "", user_id |-> NoUser]

\* POST /api/auth/register at process p, up to the answer of
\* db.get_user_by_email: the request is rejected or goes on to create the user.
register_check(p, email) ==
    /\ register_pc[p] = "idle"
    /\ register_email' = [register_email EXCEPT ![p] = email]
    /\ IF get_user_by_email(email) # {}
       THEN /\ register_response' =
                  [register_response EXCEPT ![p] =
                      [status |-> 400, detail |-> "Email already registered",
                       user_id |-> NoUser]]
            /\ UNCHANGED register_pc
       ELSE /\ register_pc' = [register_pc EXCEPT ![p] = "creating"]
            /\ register_response' = [register_response EXCEPT ![p] = NoResponse]
    /\ UNCHANGED users
    /\ UNCHANGED <<authVars, apiVars, exceptBackendVars>>

\* The rest of the request: db.create_user, auth.generate_token, the response.
register_create(p) ==
    /\ register_pc[p] = "creating"
    /\ \E user_id \in RegisteredIds \ DOMAIN users,
          token \in TokenPool \ DOMAIN issued_tokens :
          /\ users' = create_user(user_id, register_email[p])
          /\ _active_tokens' =
                [_active_tokens EXCEPT ![p] = generate_token(@, user_id, token)]
          /\ issued_tokens' =
                [t \in DOMAIN issued_tokens \cup {token} |->
                    IF t = token
                    THEN [user_id |-> user_id,
                          expires_at |-> utcnow + TOKEN_DAYS, server |-> p]
                    ELSE issued_tokens[t]]
          /\ register_response' =
                [register_response EXCEPT ![p] =
                    [status |-> 200, detail |-> "", user_id |-> user_id]]
    /\ register_pc' = [register_pc EXCEPT ![p] = "idle"]
    /\ UNCHANGED <<register_email, utcnow, revoked_tokens, expired_tokens,
                   auth_call>>
    /\ UNCHANGED <<apiVars, exceptBackendVars>>

\* No user exists and no process is serving a register request.
UsersInit ==
    /\ users = << >>
    /\ register_pc = [p \in Servers |-> "idle"]
    /\ register_email = [p \in Servers |-> ""]
    /\ register_response = [p \in Servers |-> NoResponse]

BackendQuiescent == AuthInit /\ ApiInit /\ UsersInit

\* ------------------------------------------------------------------------
\* Specifications

InitSearch ==
    /\ RefundQuiescent /\ SearchInit
    /\ SessionQuiescent /\ RetryQuiescent /\ ToolsQuiescent
    /\ ChatQuiescent /\ BackendQuiescent

NextSearch == Search

SpecSearch == InitSearch /\ [][NextSearch]_vars

Init ==
    /\ RefundInit /\ SearchQuiescent
    /\ SessionQuiescent /\ RetryQuiescent /\ ToolsQuiescent
    /\ ChatQuiescent /\ BackendQuiescent

Next ==
    \/ \E r \in Runs, oid \in OrderIdPool, rsn \in Reasons :
          StartRefundWorkflow(r, oid, rsn)
    \/ \E r \in Runs : OrderValidator(r)
    \/ \E r \in Runs : EligibilityChecker(r)
    \/ \E r \in Runs : RefundProcessor(r)
    \/ \E r \in Runs, rsn \in Reasons : ProvideReason(r, rsn)

Spec == Init /\ [][Next]_vars

InitSession ==
    /\ RefundQuiescent /\ SessionInit
    /\ RetryQuiescent /\ ToolsQuiescent
    /\ ChatQuiescent /\ BackendQuiescent

NextSession ==
    \/ \E q \in SessionQueries, cos \in SessionCosines, fails \in BOOLEAN,
          path \in BOOLEAN :
          CallSearchProducts(q, cos, fails, path)
    \/ SearchProducts
    \/ GetLastMentionedProduct
    \/ GetAllSavedProductsInfo

SpecSession == InitSession /\ [][NextSession]_vars

InitTools ==
    /\ RefundInit
    /\ products \in SessionCatalogs
    /\ cosine = [id \in PoolIds |-> 0]
    /\ query = <<>>
    /\ limit = SearchProductsLimit
    /\ max_price = None
    /\ embedding_fails \in BOOLEAN
    /\ search_pc = "done"
    /\ search_result = <<>>
    /\ state = <<>>
    /\ rag_path \in BOOLEAN
    /\ tool_result = NoResult
    /\ search_hit = FALSE
    /\ followup = NoFollowup
    /\ ToolsInit
    /\ RetryQuiescent
    /\ ChatQuiescent /\ BackendQuiescent

NextTools ==
    \/ \E q \in SessionQueries : Call_search_products(q)
    \/ \E pid \in PoolIds : Call_get_product_details(pid)
    \/ \E oid \in OrderIdPool : Call_track_order(oid)
    \/ \E cid \in CustomerIdPool : Call_get_order_history(cid)
    \/ \E iid \in InvoiceIdPool : Call_get_invoice(iid)
    \/ \E oid \in OrderIdPool : Call_check_payment_status(oid)
    \/ \E r \in Runs, oid \in OrderIdPool : Call_validate_order_id(r, oid)
    \/ \E r \in Runs, oid \in OrderIdPool : Call_check_refund_eligibility(r, oid)
    \/ \E oid \in OrderIdPool, rsn \in Reasons \ {""} : Call_process_refund(oid, rsn)

SpecTools == InitTools /\ [][NextTools]_vars

NextChat ==
    \/ \E authenticated \in BOOLEAN,
          session \in {"new", "own", "missing", "foreign"} :
          chat(authenticated, session)
    \/ \E ok \in BOOLEAN : create_session(ok)
    \/ stream_raises
    \/ \E text \in {PipelineMessage(ChatRun), ""} : stream_ends(text)
    \/ AgentStep

SpecChat == Init /\ [][NextChat]_vars

InitRetry ==
    /\ RefundQuiescent /\ SearchQuiescent
    /\ SessionQuiescent /\ RetryInit /\ ToolsQuiescent
    /\ ChatQuiescent /\ BackendQuiescent

NextRetry ==
    \E d \in {0, MaxCallSeconds}, s \in {0, delay}, give_up_early \in BOOLEAN :
        Attempt(d, s, give_up_early)

SpecRetry == InitRetry /\ [][NextRetry]_vars

\* A provider that keeps failing: retryable failures, as many as MaxFailures,
\* then nothing more, a success, or an error the predicate does not name.
MaxFailures == 9

\* Seconds the shortest call of the provider takes.
MinCallSeconds == 1

LongScripts ==
    { [i \in 1..k |-> "ServiceUnavailable"] \o last :
        k \in 0..MaxFailures, last \in { <<>>, <<"ok">>, <<"InvalidArgument">> } }

InitBackoff ==
    /\ RefundQuiescent /\ SearchQuiescent
    /\ SessionQuiescent /\ ToolsQuiescent
    /\ ChatQuiescent /\ BackendQuiescent
    /\ provider_script \in LongScripts
    /\ attempts = 0
    /\ delay = RETRY_INITIAL
    /\ elapsed = 0
    /\ retry_pc = "calling"
    /\ embedding_outcome = "none"

NextBackoff ==
    \E d \in {MinCallSeconds, MaxCallSeconds}, s \in {0, delay},
       give_up_early \in BOOLEAN :
        Attempt(d, s, give_up_early)

SpecBackoff == InitBackoff /\ [][NextBackoff]_vars

InitAuth ==
    /\ RefundQuiescent /\ SearchQuiescent
    /\ SessionQuiescent /\ RetryQuiescent /\ ToolsQuiescent
    /\ ChatQuiescent /\ BackendQuiescent

NextAuth ==
    \/ \E user_id \in RegisteredIds : GenerateToken(AuthServer, user_id)
    \/ \E token \in TokenPool : VerifyToken(AuthServer, token)
    \/ \E token \in TokenPool : RevokeToken(AuthServer, token)
    \/ Tick

SpecAuth == InitAuth /\ [][NextAuth]_vars

InitApi ==
    /\ RefundQuiescent /\ SearchQuiescent
    /\ SessionQuiescent /\ RetryQuiescent /\ ToolsQuiescent
    /\ ChatQuiescent /\ LoggedIn /\ ApiInit /\ UsersInit

NextApi ==
    \/ \E authorization \in AuthorizationHeaders, x_user_id \in XUserIds,
          session_id \in SessionIdPool \cup {NoUser}, agent_ok \in BOOLEAN :
          chat_request(authorization, x_user_id, session_id, agent_ok)
    \/ \E authorization \in AuthorizationHeaders, x_user_id \in XUserIds :
          list_sessions(authorization, x_user_id)
    \/ \E authorization \in AuthorizationHeaders, x_user_id \in XUserIds,
          session_id \in SessionIdPool, session_name \in SessionNames :
          rename_session(authorization, x_user_id, session_id, session_name)
    \/ \E authorization \in AuthorizationHeaders, x_user_id \in XUserIds,
          session_id \in SessionIdPool :
          delete_session(authorization, x_user_id, session_id)
    \/ \E authorization \in AuthorizationHeaders, x_user_id \in XUserIds,
          session_id \in SessionIdPool :
          get_session_messages(authorization, x_user_id, session_id)

SpecApi == InitApi /\ [][NextApi]_vars

NextRegister ==
    \/ \E p \in Servers, email \in Emails : register_check(p, email)
    \/ \E p \in Servers : register_create(p)

SpecRegister == InitAuth /\ [][NextRegister]_vars

\* ------------------------------------------------------------------------
\* Properties of the refund pipeline
\* ------------------------------------------------------------------------

\* The step is a successful process_refund call of run r.
RefundWrittenBy(r) ==
    /\ calls'[r] = Append(calls[r], "process_refund")
    /\ result'[r].status = "success"

GateCalls == <<"validate_order_id", "check_refund_eligibility">>

AllCalls == <<"validate_order_id", "check_refund_eligibility", "process_refund">>

\* The run's order exists and its eligibility record says eligible = e.
OrderWithEligibility(r, e) ==
    /\ order_id[r] \in orders
    /\ order_id[r] \in DOMAIN refund_eligibility
    /\ refund_eligibility[order_id[r]].eligible = e

\* C1: a refund record is written only by a run in which validate_order_id
\* has reported "valid" and check_refund_eligibility has reported eligible,
\* and the refund store never holds a record for an order that fails a gate.
C1_RefundOnlyAfterBothGates ==
    /\ [](\A rid \in DOMAIN refunds :
            LET o == refunds[rid].order_id
            IN  /\ o \in orders
                /\ o \in DOMAIN refund_eligibility
                /\ refund_eligibility[o].eligible)
    /\ [][ /\ refunds' # refunds => \E r \in Runs : RefundWrittenBy(r)
           /\ \A r \in Runs :
                 RefundWrittenBy(r) =>
                    /\ calls[r] = GateCalls
                    /\ order_status[r] = "valid"
                    /\ eligibility_status[r] = "eligible"
                    /\ validate_order_id(order_id[r]).status = "valid"
                    /\ check_refund_eligibility(order_id[r]).result.status = "success"
                    /\ check_refund_eligibility(order_id[r]).result.eligible ]_vars

C1_Witness ==
    \E r \in Runs :
        /\ pc[r] = "done"
        /\ calls[r] = AllCalls
        /\ RefundId(order_id[r]) \in DOMAIN refunds

\* C2: for an order id that is not in the order store, validate_order_id
\* returns "invalid" and sets escalate, no other tool is invoked in the run,
\* and the run ends with the order marked invalid (ABORT_INVALID_ORDER).
C2_InvalidOrderAborts ==
    \A r \in Runs :
        (order_id[r] \notin orders /\ pc[r] \notin {"idle", "order_validator"}) =>
            /\ calls[r] = <<"validate_order_id">>
            /\ result[r] = [status |-> "invalid"]
            /\ order_status[r] = "invalid"
            /\ escalate[r]
            /\ pc[r] # "awaiting_reason"
            /\ eligibility_status[r] \in {"", "order_not_found"}

C2_Witness ==
    \E r \in Runs :
        /\ order_id[r] \notin orders
        /\ pc[r] = "done"
        /\ calls[r] = <<"validate_order_id">>

\* C3: for an existing order whose eligibility record has eligible = false,
\* check_refund_eligibility returns success with eligible = false and the
\* record's reason and sets escalate; process_refund is not invoked and no
\* step of the run changes the refund store (ABORT_INELIGIBLE).
C3_IneligibleOrderAborts ==
    /\ [](\A r \in Runs :
            (OrderWithEligibility(r, FALSE) /\ pc[r] \in {"refund_processor", "done"}) =>
                /\ calls[r] = GateCalls
                /\ result[r] = [status   |-> "success",
                                eligible |-> FALSE,
                                reason   |-> refund_eligibility[order_id[r]].reason]
                /\ escalate[r]
                /\ eligibility_status[r] = "ineligible")
    /\ [][ \A r \in Runs :
              (OrderWithEligibility(r, FALSE) /\ pc[r] # "idle" /\ pc'[r] # pc[r]) =>
                 /\ refunds' = refunds
                 /\ pc'[r] # "awaiting_reason"
                 /\ "process_refund" \notin { calls'[r][i] : i \in DOMAIN calls'[r] } ]_vars

C3_Witness ==
    \E r \in Runs :
        /\ OrderWithEligibility(r, FALSE)
        /\ pc[r] = "done"
        /\ calls[r] = GateCalls
        /\ eligibility_status[r] = "ineligible"

\* C4: for an existing, eligible order and a non-empty reason the run ends
\* with process_refund invoked; that call returns success with the refund id
\* "REF-" + (order id without its "ORD-" prefix) and leaves under that id the
\* record (order id, reason, "pending").
C4_EligibleOrderIsRefunded ==
    /\ [](\A r \in Runs :
            (OrderWithEligibility(r, TRUE) /\ reason[r] # "" /\ pc[r] = "done") =>
                /\ calls[r] = AllCalls
                /\ StartsWithAt(order_id[r], 1, ORD_PREFIX)
                /\ result[r] =
                      [status    |-> "success",
                       refund_id |-> REF_PREFIX \o SubSeq(order_id[r], 5, Len(order_id[r])),
                       message   |-> "Refund submitted"])
    /\ [][ \A r \in Runs :
              (OrderWithEligibility(r, TRUE) /\ reason[r] # ""
                  /\ pc[r] = "refund_processor" /\ pc'[r] # pc[r]) =>
                 LET rid == REF_PREFIX \o SubSeq(order_id[r], 5, Len(order_id[r]))
                 IN  /\ pc'[r] = "done"
                     /\ rid \in DOMAIN refunds'
                     /\ refunds'[rid] = [order_id |-> order_id[r],
                                         reason   |-> reason[r],
                                         status   |-> "pending"] ]_vars

C4_Witness ==
    \E r \in Runs :
        /\ OrderWithEligibility(r, TRUE)
        /\ reason[r] # ""
        /\ pc[r] = "done"
        /\ result[r].status = "success"
        /\ refunds[result[r].refund_id].reason = reason[r]

\* ------------------------------------------------------------------------
\* Properties of the product search
\* ------------------------------------------------------------------------

\* search has returned and the query embedding was generated.
SearchDone == search_pc = "done" /\ ~embedding_fails

\* The price ceiling of the call: passed in, or extracted from the query.
Ceiling == IF max_price = None THEN _extract_price_constraint(query) ELSE max_price

Ids(seq) == [i \in DOMAIN seq |-> seq[i].id]

Min(a, b) == IF a < b THEN a ELSE b

\* The Similarity Ranker's list cut to its first n entries.
RankedPrefix(n) == SubSeq(RankedProducts, 1, Min(n, Len(RankedProducts)))

\* The query contains a key of the category mapping.
QueryHasCategory ==
    \E i \in DOMAIN category_keywords :
        KeywordInText(category_keywords[i].key, QueryWords(query))

\* The synonyms of the categories the query names.
QueryKeywords ==
    UNION { { category_keywords[i].vals[k] : k \in DOMAIN category_keywords[i].vals } :
            i \in { j \in DOMAIN category_keywords :
                       KeywordInText(category_keywords[j].key, QueryWords(query)) } }

\* A keyword of the query occurs in the product's name, description or category.
MatchesCategory(p) ==
    \E k \in QueryKeywords :
        \/ KeywordInText(k, p.name)
        \/ KeywordInText(k, p.description)
        \/ KeywordInText(k, p.category)

\* The top-K candidates (K = 3 * limit) the category filter lets through.
Survivors ==
    { p \in { RankedPrefix(3 * limit)[i] : i \in DOMAIN RankedPrefix(3 * limit) } :
          ~QueryHasCategory \/ MatchesCategory(p) }

AllWithin(seq, P) == \A i \in DOMAIN seq : seq[i].price <= P

PriceRemovesAllSurvivors ==
    /\ Survivors # {}
    /\ \A p \in Survivors : p.price > Ceiling

\* C6 as stated: when the price filter removes every survivor of the
\* category filter, the category-filtered list, cut to limit, is returned.
C6_AsStated ==
    (SearchDone /\ Ceiling # None /\ PriceRemovesAllSurvivors) =>
        /\ search_result # <<>>
        /\ Ids(search_result) =
              Ids(SubSeq(_filter_by_category(RankedPrefix(3 * limit), query), 1,
                         Min(limit, Cardinality(Survivors))))

\* C6: when a non-zero ceiling removes every survivor of the category
\* filter, the unfiltered similarity-ranked list, cut to limit, is returned.
C6_PriceFallbackIsUnfiltered ==
    (SearchDone /\ Ceiling # None /\ Ceiling # 0 /\ PriceRemovesAllSurvivors) =>
        /\ search_result # <<>>
        /\ Ids(search_result) = Ids(RankedPrefix(limit))

C6_Witness ==
    /\ SearchDone /\ Ceiling # None /\ Ceiling # 0 /\ PriceRemovesAllSurvivors
    /\ QueryHasCategory
    /\ \E i \in DOMAIN search_result : ~MatchesCategory(search_result[i])

\* C7: when the query names a category and no top-K candidate matches a
\* keyword, the unfiltered similarity list, cut to limit, is returned.
C7_CategoryFallbackIsUnfiltered ==
    (SearchDone /\ QueryHasCategory /\ Survivors = {}) =>
        /\ search_result = RankedPrefix(limit)
        /\ RankedProducts # <<>> => search_result # <<>>

C7_Witness ==
    /\ SearchDone /\ QueryHasCategory /\ Survivors = {}
    /\ Len(RankedProducts) > limit
    /\ Len(search_result) = limit

\* The weight of the first field (name, description, category) in which the
\* keyword occurs.
FirstFieldWeight(k, p) ==
    IF KeywordInText(k, p.name) THEN 3
    ELSE IF KeywordInText(k, p.description) THEN 2
    ELSE IF KeywordInText(k, p.category) THEN 1
    ELSE 0

\* Sum over the query's keywords of the first-field weight.
FirstFieldScore(p) ==
    3 * Cardinality({ k \in QueryKeywords : FirstFieldWeight(k, p) = 3 })
    + 2 * Cardinality({ k \in QueryKeywords : FirstFieldWeight(k, p) = 2 })
    + Cardinality({ k \in QueryKeywords : FirstFieldWeight(k, p) = 1 })

\* Sum over the query's keywords of 3, 2 and 1 for every field it occurs in.
PerFieldScore(p) ==
    3 * Cardinality({ k \in QueryKeywords : KeywordInText(k, p.name) })
    + 2 * Cardinality({ k \in QueryKeywords : KeywordInText(k, p.description) })
    + Cardinality({ k \in QueryKeywords : KeywordInText(k, p.category) })

\* C8 as stated: the match score of every candidate is the sum over the
\* keywords of 3 (name) + 2 (description) + 1 (category), fields counted
\* independently.
C8_AsStated ==
    (SearchDone /\ QueryHasCategory) =>
        /\ \A i \in DOMAIN RankedProducts :
              MatchScore(RankedProducts[i], _extract_category_keywords(query))
                 = PerFieldScore(RankedProducts[i])
        /\ \A i \in DOMAIN search_result :
              search_result[i].category_match_score # None =>
                 search_result[i].category_match_score = PerFieldScore(search_result[i])

\* C8: the match score of every candidate is the sum over the keywords of
\* the weight of the first field that contains the keyword: 3 for the name,
\* else 2 for the description, else 1 for the category, else 0.
C8_ScoreCountsFirstMatchingField ==
    (SearchDone /\ QueryHasCategory) =>
        /\ \A i \in DOMAIN RankedProducts :
              MatchScore(RankedProducts[i], _extract_category_keywords(query))
                 = FirstFieldScore(RankedProducts[i])
        /\ \A i \in DOMAIN search_result :
              search_result[i].category_match_score =
                 IF FirstFieldScore(search_result[i]) > 0
                 THEN FirstFieldScore(search_result[i]) ELSE None

C8_Witness ==
    /\ SearchDone /\ QueryHasCategory
    /\ \E i \in DOMAIN search_result :
          /\ search_result[i].category_match_score = FirstFieldScore(search_result[i])
          /\ FirstFieldScore(search_result[i]) < PerFieldScore(search_result[i])

\* C9: search returns at most limit results, each a product of the catalog
\* that has a stored embedding.
C9_AtMostLimitFromEmbeddedCatalog ==
    (search_pc = "done" /\ limit >= 1) =>
        /\ Len(search_result) <= limit
        /\ \A i \in DOMAIN search_result :
              \E j \in DOMAIN products :
                  /\ products[j].id = search_result[i].id
                  /\ products[j].has_embedding
                  /\ products[j].name = search_result[i].name
                  /\ products[j].price = search_result[i].price

C9_Witness ==
    /\ SearchDone
    /\ \E j \in DOMAIN products : ~products[j].has_embedding
    /\ Len(RankedProducts) > limit
    /\ Len(search_result) = limit

\* The list is in descending similarity order.
DescendingSimilarity(seq) ==
    \A i, j \in DOMAIN seq : i < j => seq[i].similarity >= seq[j].similarity

\* C10: for a query without category keyword and without price constraint
\* the result is the ranker's descending-similarity list cut to limit.
C10_FiltersAreNoOps ==
    (SearchDone /\ ~QueryHasCategory /\ Ceiling = None) =>
        /\ search_result = RankedPrefix(limit)
        /\ DescendingSimilarity(search_result)
        /\ \A i \in DOMAIN RankedProducts :
              i > Len(search_result) =>
                 \A j \in DOMAIN search_result :
                    search_result[j].similarity >= RankedProducts[i].similarity

C10_Witness ==
    /\ SearchDone /\ ~QueryHasCategory /\ Ceiling = None
    /\ Len(search_result) = limit
    /\ \E i \in DOMAIN search_result : MatchScore(search_result[i], <<"laptop">>) = 0
    /\ \E i \in DOMAIN RankedProducts :
          /\ i > limit
          /\ MatchScore(RankedProducts[i], <<"laptop">>) > 0

\* ------------------------------------------------------------------------
\* search_products, the session memory and the embedding generator

\* search_products has returned from the call of the current query.
ToolReturned == search_pc = "done" /\ tool_result # NoResult

\* C11: when generating the query embedding fails, search returns the empty
\* list, and the search_products call that ran it on the RAG path returns
\* status "no_results".
C11_EmbeddingFailureIsNoResults ==
    /\ embedding_fails => search(query, limit, max_price) = <<>>
    /\ (ToolReturned /\ rag_path /\ embedding_fails) =>
          /\ search_result = <<>>
          /\ tool_result.status = "no_results"

C11_Witness ==
    /\ ToolReturned /\ rag_path /\ embedding_fails
    /\ EmbeddedIds(products) # {}
    /\ tool_result.status = "no_results"

\* The provider fails k times with retryable errors and then succeeds.
FailsThenSucceeds(k) ==
    /\ k + 1 <= Len(provider_script)
    /\ \A i \in 1..k : provider_script[i] \in RetryableKinds
    /\ provider_script[k + 1] = "ok"

\* C12 as stated: a provider that fails k times with retryable errors and then
\* succeeds has been called exactly k + 1 times when the generator is done.
C12_AsStated ==
    \A k \in 0..(MaxProviderCalls - 1) :
        (retry_pc = "done" /\ FailsThenSucceeds(k)) => attempts = k + 1

\* C12: the provider is called again only after a retryable failure and no
\* later than the deadline; the generator gives up on a retryable failure
\* only when the next attempt would start after the deadline, and re-raises
\* any other failure; it returns at the first success and calls the
\* provider no more once it is done; a provider that fails k times with
\* retryable errors and then succeeds is called k + 1 times, or at most k
\* times when the deadline ends the loop first.
C12_RetriesUntilSuccessOrDeadline ==
    /\ [](/\ \A i \in 1..(attempts - 1) : provider_script[i] \in RetryableKinds
          /\ (retry_pc = "calling" /\ attempts > 0) =>
                /\ provider_script[attempts] \in RetryableKinds
                /\ elapsed <= RETRY_DEADLINE
          /\ embedding_outcome = "retry_error" =>
                /\ provider_script[attempts] \in RetryableKinds
                /\ elapsed + delay > RETRY_DEADLINE
          /\ embedding_outcome = "raised" =>
                provider_script[attempts] \notin RetryableKinds \cup {"ok"}
          /\ embedding_outcome = "value" =>
                retry_pc = "done" /\ provider_script[attempts] = "ok"
          /\ \A k \in 0..(MaxProviderCalls - 1) :
                (retry_pc = "done" /\ FailsThenSucceeds(k)) =>
                    \/ embedding_outcome = "value" /\ attempts = k + 1
                    \/ embedding_outcome = "retry_error" /\ attempts <= k)
    /\ [][retry_pc = "done" => attempts' = attempts]_vars

C12_Witness ==
    /\ embedding_outcome = "value"
    /\ attempts = MaxProviderCalls
    /\ FailsThenSucceeds(MaxProviderCalls - 1)

\* ------------------------------------------------------------------------
\* Refund pipeline: reason, missing eligibility record, stage order, races

\* C13: no refund record has an empty reason; a refund_processor that finds
\* both gates passed and no reason pauses the run to ask for one, writing no
\* refund and calling no tool; process_refund is called with a non-empty
\* reason only.
C13_NoRefundWithoutReason ==
    /\ [](\A rid \in DOMAIN refunds : refunds[rid].reason # "")
    /\ [][\A r \in Runs :
            /\ (pc[r] = "refund_processor" /\ pc'[r] # pc[r]
                  /\ GatesPass(r) /\ reason[r] = "") =>
                  /\ pc'[r] = "awaiting_reason"
                  /\ refunds' = refunds
                  /\ calls'[r] = calls[r]
            /\ RefundWrittenBy(r) => reason[r] # ""]_vars

C13_Witness ==
    \E r \in Runs :
        /\ pc[r] = "awaiting_reason"
        /\ GatesPass(r) /\ reason[r] = ""
        /\ RefundId(order_id[r]) \notin DOMAIN refunds

\* Stage 2 of run r has checked a valid order that has no eligibility record.
CheckedWithoutRecord(r) ==
    /\ order_status[r] = "valid"
    /\ "check_refund_eligibility" \in { calls[r][i] : i \in DOMAIN calls[r] }
    /\ order_id[r] \notin DOMAIN refund_eligibility

\* C14 as stated: for a valid order without an eligibility record, Stage 2
\* sets eligibility_status to order_not_found.
C14_AsStated ==
    \A r \in Runs :
        CheckedWithoutRecord(r) => eligibility_status[r] = "order_not_found"

\* C14: for a valid order without an eligibility record, Stage 2 sets
\* eligibility_status to no_eligibility_data and sets the abort flag, and the
\* run calls process_refund never and writes no refund.
C14_MissingRecordAborts ==
    \A r \in Runs :
        CheckedWithoutRecord(r) =>
            /\ eligibility_status[r] = "no_eligibility_data"
            /\ escalate[r]
            /\ "process_refund" \notin { calls[r][i] : i \in DOMAIN calls[r] }
            /\ RefundId(order_id[r]) \notin DOMAIN refunds

C14_Witness ==
    \E r \in Runs :
        /\ pc[r] = "done"
        /\ CheckedWithoutRecord(r)
        /\ eligibility_status[r] = "no_eligibility_data"
        /\ escalate[r]

\* ------------------------------------------------------------------------
\* Session product memory

\* The keys search_products writes.
MemoryKeys ==
    {"last_product_id", "last_product_name", "last_search_query",
     "products_to_detail", "detailed_product_ids"}

\* search_products has returned a non-empty list for the current query.
ReturnedProducts == ToolReturned /\ tool_result.status = "success"

\* C15: after a search_products call that returned products, by the RAG path
\* or by the keyword path, the session state holds the id and the name of
\* the first returned product, the query, the ids of the returned products
\* in returned order, and an empty detailed_product_ids.
C15_NonEmptySearchIsSaved ==
    ReturnedProducts =>
        /\ tool_result.products # <<>>
        /\ tool_result.count = Len(tool_result.products)
        /\ tool_result.method = (IF rag_path THEN "RAG" ELSE "keyword")
        /\ MemoryKeys \subseteq DOMAIN state
        /\ state["last_product_id"] = tool_result.products[1].id
        /\ state["last_product_name"] = tool_result.products[1].name
        /\ state["last_search_query"] = query
        /\ state["products_to_detail"] =
              [i \in DOMAIN tool_result.products |-> tool_result.products[i].id]
        /\ state["detailed_product_ids"] = <<>>

C15_Witness ==
    /\ ReturnedProducts
    /\ tool_result.method = "keyword"
    /\ Len(tool_result.products) >= 2
    /\ state["last_product_id"] = "PROD-1"
    /\ state["products_to_detail"][Len(tool_result.products)] = "PROD-5"

\* The session state holds the memory of a search.
HasMemory == MemoryKeys \subseteq DOMAIN state

\* C16 as stated: after each search_products call the memory the session
\* holds is that of this call: its query and the ids it returned.
C16_AsStated ==
    (ToolReturned /\ HasMemory) =>
        /\ state["last_search_query"] = query
        /\ state["products_to_detail"] =
              [i \in DOMAIN search_result |-> search_result[i].id]

\* C16: a search_products call that returns products overwrites every key of
\* the memory with the values of this call, whatever an earlier search left;
\* a call that returns no products leaves the session state as it was.
C16_SearchWithProductsOverwrites ==
    [][(search_pc = "ready" /\ search_pc' = "done") =>
          IF tool_result'.status = "success"
          THEN /\ HasMemory'
               /\ state'["last_product_id"] = tool_result'.products[1].id
               /\ state'["last_product_name"] = tool_result'.products[1].name
               /\ state'["last_search_query"] = query
               /\ state'["products_to_detail"] =
                     [i \in DOMAIN tool_result'.products |->
                         tool_result'.products[i].id]
               /\ state'["detailed_product_ids"] = <<>>
          ELSE /\ tool_result'.status = "no_results"
               /\ state' = state]_vars

C16_Witness ==
    /\ ToolReturned /\ HasMemory
    /\ tool_result.status = "no_results"
    /\ state["last_search_query"] # query
    /\ state["products_to_detail"] # <<>>

\* ------------------------------------------------------------------------
\* Status values of the tools

\* The status values the interface names.
NamedStatuses == {"success", "not_found", "invalid", "error", "no_results"}

\* The status values each tool returns.
StatusesOf(name) ==
    CASE name = "search_products"          -> {"success", "no_results"}
      [] name = "get_order_history"        -> {"success", "no_orders"}
      [] name = "validate_order_id"        -> {"valid", "invalid"}
      [] name = "process_refund"           -> {"success", "error"}
      [] OTHER                             -> {"success", "not_found"}

C18_StagesInOrderAtMostOnce ==
    /\ [](\A r \in Runs :
            /\ Len(calls[r]) <= Len(AllCalls)
            /\ calls[r] = SubSeq(AllCalls, 1, Len(calls[r])))
    /\ [][\A r \in Runs :
            calls'[r] # calls[r] =>
                \/ calls'[r] = <<>> /\ pc'[r] = "order_validator"
                \/ /\ Len(calls[r]) < Len(AllCalls)
                   /\ calls'[r] = Append(calls[r], AllCalls[Len(calls[r]) + 1])]_vars

C18_Witness ==
    \E r \in Runs :
        /\ pc[r] = "done"
        /\ calls[r] = AllCalls
        /\ \E q \in Runs \ {r} :
              pc[q] = "done" /\ calls[q] = <<"validate_order_id">>

\* Run r has called process_refund in its current workflow run.
CalledProcessRefund(r) ==
    "process_refund" \in { calls[r][i] : i \in DOMAIN calls[r] }

\* C20: two runs that refund the same existing order both get status
\* "success" and the same refund id; the store holds one record for the order,
\* under that id, with status "pending" and the reason of one of the two
\* runs; each write replaces the record under the id by the writer's own,
\* so the record is that of the write that came last.
C20_ConcurrentRefundsLastWriteWins ==
    /\ [](\A r \in Runs : \A q \in Runs \ {r} :
            (CalledProcessRefund(r) /\ CalledProcessRefund(q)
                /\ order_id[r] = order_id[q]) =>
                LET rid == RefundId(order_id[r])
                IN  /\ result[r].status = "success"
                    /\ result[q].status = "success"
                    /\ result[r].refund_id = rid
                    /\ result[q].refund_id = rid
                    /\ rid \in DOMAIN refunds
                    /\ { x \in DOMAIN refunds :
                           refunds[x].order_id = order_id[r] } = {rid}
                    /\ refunds[rid].status = "pending"
                    /\ refunds[rid].reason \in {reason[r], reason[q]})
    /\ [][\A r \in Runs :
            RefundWrittenBy(r) =>
                LET rid == RefundId(order_id[r])
                IN  /\ DOMAIN refunds' = DOMAIN refunds \cup {rid}
                    /\ refunds'[rid] = [order_id |-> order_id[r],
                                        reason   |-> reason[r],
                                        status   |-> "pending"]
                    /\ \A x \in DOMAIN refunds \ {rid} :
                          refunds'[x] = refunds[x]]_vars

C20_Witness ==
    /\ pc["r1"] = "done" /\ pc["r2"] = "done"
    /\ calls["r1"] = AllCalls /\ calls["r2"] = AllCalls
    /\ order_id["r1"] = order_id["r2"]
    /\ reason["r1"] # reason["r2"]
    /\ refunds[RefundId(order_id["r1"])].reason = reason["r1"]
    /\ Cardinality(DOMAIN refunds) = 1

\* ------------------------------------------------------------------------
\* Chat turns

\* The agent was queried for the request, and the request has been answered.
TurnAnswered == chat_pc = "done" /\ agent_outcome # ""

\* C19: for every end state of the refund workflow and every outcome of the
\* agent query, the answered request carries a non-empty message: the
\* agent's text, or the fallback text when the agent produced none.
C19_EveryTurnGetsAMessage ==
    TurnAnswered =>
        /\ http_status = 200
        /\ response_text # ""
        /\ response_text = (IF agent_text # "" THEN agent_text ELSE FALLBACK_TEXT)

\* ------------------------------------------------------------------------
\* Price extraction and category filter

\* The numbers the price phrases match at position i of the query.
PriceMatchesAt(q, i) ==
    { NumberAfterPhrase(q, i, price_patterns[n]) : n \in DOMAIN price_patterns }
        \ {None}

\* The positions of the query where a price phrase matches.
PriceMatchPositions(q) == { i \in DOMAIN q : PriceMatchesAt(q, i) # {} }

\* The patterns that match somewhere in the query.
MatchingPatterns(q) ==
    { n \in DOMAIN price_patterns :
        \E i \in DOMAIN q : NumberAfterPhrase(q, i, price_patterns[n]) # None }

\* C21 as stated: the extractor returns the number of the first match in the
\* query, and no constraint exactly when no phrase matches.
C21_AsStated ==
    LET hits == PriceMatchPositions(query)
    IN  IF hits = {} THEN _extract_price_constraint(query) = None
        ELSE LET first == CHOOSE i \in hits : \A j \in hits : i <= j
             IN  _extract_price_constraint(query) \in PriceMatchesAt(query, first)

\* C21: the extractor returns the number of the leftmost match of the first
\* phrase, in the order under, below, less than, cheaper than, max, maximum,
\* that matches anywhere in the query, and no constraint exactly when no
\* phrase matches.
C21_FirstPatternInListOrder ==
    LET found == MatchingPatterns(query)
    IN  IF found = {} THEN _extract_price_constraint(query) = None
        ELSE LET n  == CHOOSE m \in found : \A k \in found : m <= k
                 at == { i \in DOMAIN query :
                           NumberAfterPhrase(query, i, price_patterns[n]) # None }
                 i  == CHOOSE a \in at : \A b \in at : a <= b
             IN  /\ _extract_price_constraint(query) # None
                 /\ _extract_price_constraint(query) =
                       NumberAfterPhrase(query, i, price_patterns[n])

C21_Witness ==
    /\ search_pc = "done"
    /\ query = <<"below", " ", "3", " ", "under", " ", "1">>
    /\ _extract_price_constraint(query) = 1
    /\ max_price = None

\* The list the category filter is given, and the list it returns.
FilterInput == RankedPrefix(3 * limit)

FilterOutput == _filter_by_category(FilterInput, query)

\* C22: for a query with category keywords the category filter returns each
\* input candidate whose match score is positive, once, with that score, and
\* no other; the list is ordered by match score descending and, among equal
\* scores, by similarity descending.
C22_CategoryFilterKeepsAndOrders ==
    QueryHasCategory =>
        LET input  == FilterInput
            output == FilterOutput
            score  == [i \in DOMAIN input |-> FirstFieldScore(input[i])]
            kept   == { i \in DOMAIN input : score[i] > 0 }
        IN  /\ Len(output) = Cardinality(kept)
            /\ { output[i].id : i \in DOMAIN output } = { input[i].id : i \in kept }
            /\ \A i \in DOMAIN output :
                  \E j \in kept :
                     output[i] = [input[j] EXCEPT !.category_match_score = score[j]]
            /\ \A i \in 1..(Len(output) - 1) :
                  \/ output[i].category_match_score > output[i + 1].category_match_score
                  \/ /\ output[i].category_match_score = output[i + 1].category_match_score
                     /\ output[i].similarity >= output[i + 1].similarity

C22_Witness ==
    /\ search_pc = "done" /\ ~embedding_fails
    /\ QueryHasCategory
    /\ LET input  == FilterInput
           output == FilterOutput
       IN  /\ Len(output) >= 2
           /\ Len(output) < Len(input)
           /\ output[1].category_match_score > output[2].category_match_score
           /\ output[1].similarity < output[2].similarity

\* ------------------------------------------------------------------------
\* process_refund called directly
\* ------------------------------------------------------------------------

\* C23: process_refund called with an order id that is not in the order
\* store returns status "error" with message "Order not found" and leaves
\* the refund store unchanged; the refund store changes only in a call that
\* returns status "success".
C23_UnknownOrderWritesNoRefund ==
    [][ \A oid \in OrderIdPool, rsn \in Reasons \ {""} :
           Call_process_refund(oid, rsn) =>
              /\ oid \notin orders =>
                    /\ tool_status' = "error"
                    /\ process_refund(oid, rsn).result.message = "Order not found"
                    /\ refunds' = refunds
              /\ refunds' # refunds =>
                    /\ tool_status' = "success"
                    /\ oid \in orders ]_vars

C23_Witness ==
    /\ tool_pc = "done"
    /\ tool_name = "process_refund"
    /\ tool_status = "error"
    /\ orders # {}
    /\ refunds = << >>

\* ------------------------------------------------------------------------
\* Backoff and deadline of the retry loop
\* ------------------------------------------------------------------------

RECURSIVE Pow(_, _)
Pow(b, k) == IF k = 0 THEN 1 ELSE b * Pow(b, k - 1)

\* Backoff sleeps the loop has begun.
Sleeps == IF retry_pc = "calling" THEN attempts ELSE attempts - 1

\* The step starts an attempt.
AttemptStarts == attempts' = attempts + 1

\* C24 as stated: no attempt is started once 300 seconds have elapsed since
\* the first attempt.
C24_AsStated == [][AttemptStarts => elapsed < RETRY_DEADLINE]_vars

\* C24: the nominal backoff delay starts at 1 second, doubles after each
\* failed attempt and never exceeds 60 seconds (1, 2, 4, 8, 16, 32, 60, 60,
\* ...); no attempt is started later than 300 seconds after the first one
\* (one may start at the deadline, after a sleep cut short to end there); a
\* retryable failure at or after the deadline ends the loop and no sleep is
\* begun then; every attempt takes time, so the attempts are at most as many
\* as the seconds elapsed and the loop terminates.
C24_BackoffDoublesUpToCapUntilDeadline ==
    /\ [](/\ delay = (IF Pow(RETRY_MULTIPLIER, Sleeps) > RETRY_MAXIMUM
                      THEN RETRY_MAXIMUM
                      ELSE RETRY_INITIAL * Pow(RETRY_MULTIPLIER, Sleeps))
          /\ Sleeps < 8 => delay = <<1, 2, 4, 8, 16, 32, 60, 60>>[Sleeps + 1]
          /\ delay <= RETRY_MAXIMUM
          /\ retry_pc = "calling" => elapsed <= RETRY_DEADLINE
          /\ elapsed >= attempts * MinCallSeconds
          /\ retry_pc = "calling" => attempts * MinCallSeconds <= RETRY_DEADLINE)
    /\ [][/\ AttemptStarts => elapsed <= RETRY_DEADLINE
          /\ (AttemptStarts /\ elapsed >= RETRY_DEADLINE) =>
                /\ retry_pc' = "done"
                /\ delay' = delay
          /\ elapsed' >= elapsed]_vars

\* The delay has reached its cap and stayed there, and the last sleep was cut
\* short to end at the deadline, where the next attempt starts.
C24_Witness ==
    /\ retry_pc = "calling"
    /\ attempts >= 8
    /\ attempts < Len(provider_script)
    /\ delay = RETRY_MAXIMUM
    /\ elapsed = RETRY_DEADLINE

\* ------------------------------------------------------------------------
\* Tokens
\* ------------------------------------------------------------------------

\* Token t was issued by the auth process, has not been revoked and its
\* expiry has not passed.
ValidToken(t) ==
    /\ t \in DOMAIN issued_tokens
    /\ issued_tokens[t].server = AuthServer
    /\ t \notin revoked_tokens
    /\ utcnow <= issued_tokens[t].expires_at

\* C25: verify_token(t) returns user id u exactly when t was issued to u by
\* generate_token, has not been revoked and its 30-day expiry has not passed,
\* and None in every other case; a token that was revoked or found expired
\* is in the store no more and is never accepted again; revoke_token(t)
\* leaves what verify_token returns for every other token unchanged.
C25_TokenValidity ==
    /\ [](\A t \in revoked_tokens \cup expired_tokens :
             t \notin DOMAIN _active_tokens[AuthServer])
    /\ [][\A t \in TokenPool :
            /\ VerifyToken(AuthServer, t) =>
                  /\ auth_call'.result =
                        IF ValidToken(t) THEN issued_tokens[t].user_id ELSE NoUser
                  /\ t \in revoked_tokens \cup expired_tokens =>
                        auth_call'.result = NoUser
            /\ RevokeToken(AuthServer, t) =>
                  \A other \in TokenPool \ {t} :
                     verify_token(_active_tokens'[AuthServer], other).result
                        = verify_token(_active_tokens[AuthServer], other).result]_vars

\* One token was found expired, one was revoked, and a third one has just
\* been accepted.
C25_Witness ==
    \E t \in revoked_tokens, gone \in expired_tokens :
        /\ auth_call.op = "verify_token"
        /\ auth_call.token \notin {t, gone}
        /\ auth_call.result \in RegisteredIds
        /\ issued_tokens[t].user_id = auth_call.result

\* ------------------------------------------------------------------------
\* Session endpoints: ownership and anonymous access
\* ------------------------------------------------------------------------

\* The step serves a request and leaves the stored sessions and messages
\* alone, queries the agent not, and returns no session data.
RejectedUntouched ==
    /\ sessions' = sessions
    /\ messages' = messages
    /\ agent_queries' = agent_queries
    /\ api_response'.body.session_ids = {}
    /\ api_response'.body.messages = << >>

\* C26: a chat, rename, delete or message-history request that names a
\* session whose owner differs from the requesting user id is rejected with
\* 403, and one that names an unknown session with 404; in both cases the
\* agent is not queried and the session's stored data is neither changed
\* nor returned.
C26_ForeignOrUnknownSessionRejected ==
    [][LET r == api_response'
       IN  /\ (r.endpoint \in {"chat", "rename", "delete", "messages"}
                 /\ r.user_id # NoUser /\ r.named # NoUser) =>
                 /\ r.named \notin DOMAIN sessions =>
                       r.status = 404 /\ RejectedUntouched
                 /\ (r.named \in DOMAIN sessions
                       /\ sessions[r.named].user_id # r.user_id) =>
                       r.status = 403 /\ RejectedUntouched
           /\ r.status \in {403, 404} => RejectedUntouched]_vars

\* A delete request for another user's session was rejected; the session is
\* active and has its messages.
C26_Witness ==
    /\ api_response.endpoint = "delete"
    /\ api_response.status = 403
    /\ api_response.named \in DOMAIN sessions
    /\ sessions[api_response.named].is_active
    /\ sessions[api_response.named].user_id # api_response.user_id
    /\ Len(messages[api_response.named]) > 0

\* C27: a request that carries no valid bearer token and is served acts
\* under an anonymous (anon-*) user id.
C27_NoTokenMeansAnonymous ==
    [][LET r == api_response'
       IN  (r.bearer = NoUser /\ r.user_id # NoUser) =>
               r.user_id \in AnonymousIds]_vars

\* ------------------------------------------------------------------------
\* Registration
\* ------------------------------------------------------------------------

\* C28: at most one user account exists per email address.
C28_OneAccountPerEmail ==
    \A u \in DOMAIN users : \A v \in DOMAIN users :
        users[u].email = users[v].email => u = v

\* ------------------------------------------------------------------------
\* Refund ids of different orders
\* ------------------------------------------------------------------------

\* C29: distinct order ids of the order store never map to the same refund
\* id; every refund record sits under the refund id of its own order, and a
\* refund written for one order leaves the refund records of every other
\* order as they are.
C29_DistinctOrdersDistinctRefunds ==
    /\ [](/\ \A a \in orders : \A b \in orders \ {a} : RefundId(a) # RefundId(b)
          /\ \A rid \in DOMAIN refunds : RefundId(refunds[rid].order_id) = rid)
    /\ [][\A r \in Runs :
            RefundWrittenBy(r) =>
               /\ refunds'[RefundId(order_id[r])].order_id = order_id[r]
               /\ \A rid \in DOMAIN refunds :
                     refunds[rid].order_id # order_id[r] =>
                        /\ rid \in DOMAIN refunds'
                        /\ refunds'[rid] = refunds[rid]]_vars

\* Two different orders have been refunded and each has its own record.
C29_Witness ==
    /\ Cardinality(DOMAIN refunds) = 2
    /\ \A r \in Runs : pc[r] = "done" /\ CalledProcessRefund(r)
    /\ order_id["r1"] # order_id["r2"]

\* ------------------------------------------------------------------------
\* Follow-up tools on the session's product memory
\* ------------------------------------------------------------------------

\* C30: after any sequence of search_products calls in a session, each of
\* get_last_mentioned_product and get_all_saved_products_info returns status
\* "error" if and only if no search of the session has yet returned results;
\* otherwise get_all_saved_products_info lists exactly one entry per saved
\* product id, in saved order, and the product get_last_mentioned_product
\* returns is the first of them; a follow-up call returns just that and
\* leaves the memory as it is.
C30_FollowUpsResolveAgainstSameSearch ==
    /\ [](LET last  == get_last_mentioned_product(state)
              all   == get_all_saved_products_info(state)
              saved == StateGet(state, "products_to_detail", << >>)
          IN  /\ last.status = "error" <=> ~search_hit
              /\ all.status = "error" <=> ~search_hit
              /\ search_hit =>
                    /\ all.count = Len(saved)
                    /\ Len(all.products) = Len(saved)
                    /\ \A i \in DOMAIN saved :
                          all.products[i].product_id = saved[i]
                    /\ last.status = "success"
                    /\ last.product_id = all.products[1].product_id)
    /\ [][followup' # followup =>
             /\ state' = state
             /\ followup'.result =
                   IF followup'.tool = "get_last_mentioned_product"
                   THEN get_last_mentioned_product(state)
                   ELSE get_all_saved_products_info(state)]_vars

\* The latest search found nothing, and "all of them" still lists the
\* products of the search before it.
C30_Witness ==
    /\ followup.tool = "get_all_saved_products_info"
    /\ followup.result.status = "success"
    /\ followup.result.count >= 2
    /\ tool_result.status = "no_results"
    /\ get_last_mentioned_product(state).product_id
          = followup.result.products[1].product_id

====
